---------------------------- MODULE Spec2Model ----------------------------
(***************************************************************************)
(* A model of the CMON51 debug adapter's runtime (src/src/parselst.ts,     *)
(* class Runtime): the queue of response matchers, the backlog of output   *)
(* that arrived while no matcher was registered, the line map read from    *)
(* the listing file, and the facade operations that write commands to the  *)
(* pseudo terminal and register matchers for the answers.                  *)
(*                                                                         *)
(* Text is a sequence of one-character strings, so that a chunk of output  *)
(* can be cut anywhere and a regular expression is something a chunk can   *)
(* fail to match.                                                          *)
(***************************************************************************)
EXTENDS Integers, Sequences, FiniteSets, TLC

SetMin(S) == CHOOSE x \in S : \A y \in S : x <= y

SetMax(S) == CHOOSE x \in S : \A y \in S : y <= x

\* JavaScript's null (no match) and undefined (a group that took no part).
Null == [null |-> TRUE]

Undefined == <<"undefined">>

\* this.lineMap and this.instructionList before they are assigned: undefined,
\* written as a value of the kind of a line map or an instruction list that no
\* listing yields.
UndefinedMap == <<Undefined>>

UndefinedList == <<-1>>

----------------------------------------------------------------------------
(* Characters *)

CR == "\r"

LF == "\n"

\* The escape character \x1B, written as one symbol.
ESC == "ESC"

Digits == {"0", "1", "2", "3", "4", "5", "6", "7", "8", "9"}

\* [0-9A-F]
HexUpper == Digits \cup {"A", "B", "C", "D", "E", "F"}

\* The line terminators that the regular expression dot does not match.
LineTerminators == {CR, LF}

DigitValue(c) ==
    CASE c = "0" -> 0 [] c = "1" -> 1 [] c = "2" -> 2 [] c = "3" -> 3
      [] c = "4" -> 4 [] c = "5" -> 5 [] c = "6" -> 6 [] c = "7" -> 7
      [] c = "8" -> 8 [] c = "9" -> 9
      [] c \in {"A", "a"} -> 10 [] c \in {"B", "b"} -> 11
      [] c \in {"C", "c"} -> 12 [] c \in {"D", "d"} -> 13
      [] c \in {"E", "e"} -> 14 [] c \in {"F", "f"} -> 15
      [] OTHER -> -1

----------------------------------------------------------------------------
(* Text primitives used by the regular expressions *)

\* lit occurs in s at index i.
HasAt(s, i, lit) ==
    /\ i >= 1
    /\ i + Len(lit) - 1 <= Len(s)
    /\ \A j \in 1..Len(lit) : s[i + j - 1] = lit[j]

\* Index of the leftmost occurrence of lit in s, 0 when there is none.
Find(s, lit) ==
    LET I == {i \in 1..Len(s) : HasAt(s, i, lit)}
    IN  IF I = {} THEN 0 ELSE SetMin(I)

\* Last index of the longest run of characters of set cs that starts at i
\* (i - 1 when the run is empty): a greedy cs*.
RunEnd(s, i, cs) ==
    LET stop == {j \in i..Len(s) : s[j] \notin cs}
    IN  IF stop = {} THEN Len(s) ELSE SetMin(stop) - 1

\* Last index of the longest run of characters outside cs that starts at i.
RunEndNot(s, i, cs) ==
    LET stop == {j \in i..Len(s) : s[j] \in cs}
    IN  IF stop = {} THEN Len(s) ELSE SetMin(stop) - 1

\* A RegExpMatchArray: the input and the named groups, as <<name, text>>.
MatchArray(input, groups) == [input |-> input, groups |-> groups]

\* match.groups.<name>
Group(m, name) ==
    LET I == {i \in 1..Len(m.groups) : m.groups[i][1] = name}
    IN  IF I = {} THEN Undefined ELSE m.groups[SetMin(I)][2]

----------------------------------------------------------------------------
(* The regular expressions of the runtime, each as input.match(pattern):   *)
(* a MatchArray for the leftmost match, Null when there is none.           *)

\* Runtime.interactive, /> /
MatchInteractive(input) ==
    IF Find(input, <<">", " ">>) = 0 THEN Null ELSE MatchArray(input, <<>>)

\* Runtime.carriageReturn, /\r/
MatchCarriageReturn(input) ==
    IF Find(input, <<CR>>) = 0 THEN Null ELSE MatchArray(input, <<>>)

\* /A =/, the pattern initialize waits for.
MatchAEq(input) ==
    IF Find(input, <<"A", " ", "=">>) = 0 THEN Null ELSE MatchArray(input, <<>>)

\* The literals of the first register line, each followed by [0-9A-F]*.
Reg1Literals ==
    << <<"A", " ", "=">>,
       <<" ", " ", "B", " ", "=">>,
       <<" ", " ", "S", "P", "=">>,
       <<" ", " ", "I", "E", "=">>,
       <<" ", " ", "D", "P", "H", "=">>,
       <<" ", "D", "P", "L", "=">>,
       <<" ", "P", "S", "W", "=">>,
       <<" ", "P", "C", "=">> >>

Reg1Names == <<"a", "b", "sp", "ie", "dph", "dpl", "psw", "pc">>

\* The literals of the general-purpose register line.
Reg2Literals ==
    << <<"R", "0", "=">>,
       <<" ", " ", "R", "1", "=">>,
       <<" ", " ", "R", "2", "=">>,
       <<" ", " ", "R", "3", "=">>,
       <<" ", " ", "R", "4", "=">>,
       <<" ", " ", "R", "5", "=">>,
       <<" ", " ", "R", "6", "=">>,
       <<" ", " ", "R", "7", "=">>,
       <<" ", " ", "B", "A", "N", "K", "=">> >>

Reg2Names == <<"r0", "r1", "r2", "r3", "r4", "r5", "r6", "r7", "bank">>

\* The groups captured by literal k, k+1, ... each followed by a greedy
\* [0-9A-F]*, matched at index p of s; ok is FALSE when a literal is not
\* there.  (No shorter capture can help: every literal starts with a
\* character that is not a hexadecimal digit.)
RECURSIVE SegGroups(_, _, _, _, _)
SegGroups(s, p, lits, names, k) ==
    IF k > Len(lits) THEN [ok |-> TRUE, groups |-> <<>>]
    ELSE IF ~HasAt(s, p, lits[k]) THEN [ok |-> FALSE, groups |-> <<>>]
    ELSE LET from == p + Len(lits[k])
             to   == RunEnd(s, from, HexUpper)
             rest == SegGroups(s, to + 1, lits, names, k + 1)
         IN  IF ~rest.ok THEN rest
             ELSE [ok |-> TRUE,
                   groups |-> << <<names[k], SubSeq(s, from, to)>> >> \o rest.groups]

MatchSegments(input, lits, names) ==
    LET I == {i \in 1..Len(input) : SegGroups(input, i, lits, names, 1).ok}
    IN  IF I = {} THEN Null
        ELSE MatchArray(input, SegGroups(input, SetMin(I), lits, names, 1).groups)

\* /A =(?<a>[0-9A-F]*)  B =(?<b>...)  SP=...  IE=...  DPH=... DPL=... PSW=... PC=(?<pc>[0-9A-F]*)/
MatchReg1(input) == MatchSegments(input, Reg1Literals, Reg1Names)

\* /R0=(?<r0>[0-9A-F]*)  R1=...  R7=(?<r7>[0-9A-F]*)  BANK=(?<bank>[0-9A-F]*)/
MatchReg2(input) == MatchSegments(input, Reg2Literals, Reg2Names)

\* /(?<breakpoint>[0-9A-F]+)/: the first run of hexadecimal digits.
MatchBreakpoint(input) ==
    LET I == {i \in 1..Len(input) : input[i] \in HexUpper}
    IN  IF I = {} THEN Null
        ELSE LET i == SetMin(I)
             IN  MatchArray(input,
                     << <<"breakpoint", SubSeq(input, i, RunEnd(input, i, HexUpper))>> >>)

\* The pattern without its anchors: the data is the leftmost run of digits.
MatchDataLoose(input) ==
    LET I == {i \in 1..Len(input) : input[i] \in HexUpper}
    IN  IF I # {}
        THEN MatchArray(input, << <<"data", SubSeq(input, SetMin(I),
                                                  RunEnd(input, SetMin(I), HexUpper))>> >>)
        ELSE IF Find(input, <<CR>>) # 0
        THEN MatchArray(input, << <<"data", Undefined>> >>)
        ELSE Null

\* /(?<data>^[0-9A-F]+$)|(?:\r)/: the whole input is a hexadecimal number,
\* or else the input holds a carriage return (and data is undefined).
MatchDataOrCr(input) ==
    IF Len(input) > 0 /\ \A i \in 1..Len(input) : input[i] \in HexUpper
    THEN MatchArray(input, << <<"data", input>> >>)
    ELSE IF Find(input, <<CR>>) # 0
    THEN MatchArray(input, << <<"data", Undefined>> >>)
    ELSE Null

\* The groups of /(?<address>[0-9A-F]+): *(?<instruction>.+)/ matched at i;
\* ok is FALSE when it does not match there.  The address is the whole run of
\* digits (a colon must follow it); the blanks are greedy, and give one back
\* to the instruction when nothing but a line terminator or the end follows.
DisasmGroupsAt(s, i) ==
    IF ~(i <= Len(s) /\ s[i] \in HexUpper) THEN [ok |-> FALSE, groups |-> <<>>]
    ELSE LET e == RunEnd(s, i, HexUpper)
             b == RunEnd(s, e + 2, {" "})
             d == RunEndNot(s, b + 1, LineTerminators)
         IN  IF ~HasAt(s, e + 1, <<":">>) THEN [ok |-> FALSE, groups |-> <<>>]
             ELSE IF d >= b + 1
             THEN [ok |-> TRUE,
                   groups |-> << <<"address", SubSeq(s, i, e)>>,
                                 <<"instruction", SubSeq(s, b + 1, d)>> >>]
             ELSE IF b >= e + 2
             THEN [ok |-> TRUE,
                   groups |-> << <<"address", SubSeq(s, i, e)>>,
                                 <<"instruction", <<" ">> >> >>]
             ELSE [ok |-> FALSE, groups |-> <<>>]

MatchDisasm(input) ==
    LET I == {i \in 1..Len(input) : DisasmGroupsAt(input, i).ok}
    IN  IF I = {} THEN Null
        ELSE MatchArray(input, DisasmGroupsAt(input, SetMin(I)).groups)

\* input.match(pattern), the pattern given by its name.
Match(pattern, input) ==
    CASE pattern = "interactive"    -> MatchInteractive(input)
      [] pattern = "carriageReturn" -> MatchCarriageReturn(input)
      [] pattern = "AEq"            -> MatchAEq(input)
      [] pattern = "reg1"           -> MatchReg1(input)
      [] pattern = "reg2"           -> MatchReg2(input)
      [] pattern = "breakpoint"     -> MatchBreakpoint(input)
      [] pattern = "dataOrCr"       -> MatchDataOrCr(input)
      [] pattern = "disasm"         -> MatchDisasm(input)

----------------------------------------------------------------------------
(* The line sanitizer of the output listener *)

\* ' '.repeat(n)
RECURSIVE Spaces(_)
Spaces(n) == IF n <= 0 THEN <<>> ELSE <<" ">> \o Spaces(n - 1)

\* pieces[lo] \o ... \o pieces[hi]
RECURSIVE Concat(_, _, _)
Concat(pieces, lo, hi) ==
    IF lo > hi THEN <<>>
    ELSE IF lo = hi THEN pieces[lo]
    ELSE LET mid == (lo + hi) \div 2
         IN  Concat(pieces, lo, mid) \o Concat(pieces, mid + 1, hi)

\* /\x1B\[(\d)C/ matches at index i of s.
CursorRightAt(s, i) ==
    /\ i >= 1
    /\ i + 3 <= Len(s)
    /\ s[i] = ESC /\ s[i + 1] = "[" /\ s[i + 2] \in Digits /\ s[i + 3] = "C"

\* rawData.replace(/\x1B\[(\d)C/g, (_, spaces) => ' '.repeat(parseInt(spaces))):
\* a cursor-right sequence with one digit becomes that many blanks.  (No two
\* matches overlap: each starts with the escape character.)
ReplaceCursorRight(s) ==
    Concat([i \in 1..Len(s) |->
               IF CursorRightAt(s, i) THEN Spaces(DigitValue(s[i + 2]))
               ELSE IF \E j \in 1..3 : CursorRightAt(s, i - j) THEN <<>>
               ELSE <<s[i]>>],
           1, Len(s))

\* The characters that end a control sequence, among the letters the model
\* uses (strip-ansi's class [\dA-PR-TZcf-nq-uy=><~], the digits handled below).
CsiFinals == {"A", "B", "C", "D", "E", "F", "m", "=", ">"}

\* Length of the control sequence ESC [ digits final that starts at i, 0 when
\* none starts there.  A sequence cut short after its digits ends at its last
\* digit, as the class of final characters holds the digits too.
CsiLength(s, i) ==
    IF ~(i >= 1 /\ i + 1 <= Len(s) /\ s[i] = ESC /\ s[i + 1] = "[") THEN 0
    ELSE LET all == RunEnd(s, i + 2, Digits)
             d   == IF all > i + 5 THEN i + 5 ELSE all
         IN  IF d + 1 <= Len(s) /\ s[d + 1] \in CsiFinals THEN d + 2 - i
             ELSE IF d >= i + 2 THEN d + 1 - i
             ELSE 0

\* stripAnsi(s), for the control sequences CsiLength knows: they are removed.
\* (No two overlap: each starts with the escape character, and is at most 7
\* characters long.)
StripAnsi(s) ==
    Concat([i \in 1..Len(s) |->
               IF \E j \in 0..6 : CsiLength(s, i - j) > j THEN <<>> ELSE <<s[i]>>],
           1, Len(s))

\* const data = stripAnsi(rawData.replace(...))
Sanitize(rawData) == StripAnsi(ReplaceCursorRight(rawData))

----------------------------------------------------------------------------
(* Addresses: hexadecimal strings and numbers *)

\* parseInt(text, 16) of a text that starts with a hexadecimal digit: the
\* value of its leading digits (every address of a line map, and every
\* address captured by [0-9A-F]+, is such a text).
RECURSIVE ParseHexUpTo(_, _)
ParseHexUpTo(text, n) ==
    IF n = 0 THEN 0 ELSE ParseHexUpTo(text, n - 1) * 16 + DigitValue(text[n])

ParseInt16(text) ==
    ParseHexUpTo(text, RunEnd(text, 1, HexUpper \cup {"a", "b", "c", "d", "e", "f"}))

LowerDigit(d) ==
    CASE d < 10 -> <<"0", "1", "2", "3", "4", "5", "6", "7", "8", "9">>[d + 1]
      [] d = 10 -> "a" [] d = 11 -> "b" [] d = 12 -> "c"
      [] d = 13 -> "d" [] d = 14 -> "e" [] d = 15 -> "f"

\* n.toString(16): lower-case digits, no padding, a minus sign when negative.
RECURSIVE ToString16(_)
ToString16(n) ==
    IF n < 0 THEN <<"-">> \o ToString16(-n)
    ELSE IF n < 16 THEN <<LowerDigit(n)>>
    ELSE ToString16(n \div 16) \o <<LowerDigit(n % 16)>>

\* array.lastIndexOf(x), 0-based, -1 when x is not an element.
FirstIndexOf(array, x) ==
    LET I == {i \in 1..Len(array) : array[i] = x}
    IN  IF I = {} THEN -1 ELSE SetMin(I) - 1

\* array.lastIndexOf(x), 0-based, -1 when x is not an element.
LastIndexOf(array, x) ==
    LET I == {i \in 1..Len(array) : array[i] = x}
    IN  IF I = {} THEN -1 ELSE SetMax(I) - 1

\* array.indexOf(x), 0-based, -1 when x is not an element.
IndexOf(array, x) ==
    LET I == {i \in 1..Len(array) : array[i] = x}
    IN  IF I = {} THEN -1 ELSE SetMin(I) - 1

\* Array.from(new Set(array)): the distinct elements, each at its first place.
RECURSIVE Distinct(_)
Distinct(array) ==
    IF array = <<>> THEN <<>>
    ELSE LET front == Distinct(SubSeq(array, 1, Len(array) - 1))
             last  == array[Len(array)]
         IN  IF \E i \in 1..Len(front) : front[i] = last THEN front
             ELSE Append(front, last)

----------------------------------------------------------------------------
(* The state of one Runtime and of the process it drives *)

VARIABLES
    process,         \* "none", "running", "killed" or "exited"
    listening,       \* dataListener is installed and not disposed
    matchers,        \* this.matchers
    outputBuffer,    \* this.outputBuffer
    lineMap,         \* this.lineMap (Undefined until the listing is read)
    instructionList, \* this.instructionList
    file,            \* this.file
    written,         \* the commands given to process.write, with the call that wrote each
    calls,           \* the invocations of the facade operations, in call order
    resolved,        \* the expectations resolved so far, in resolution order
    nextId,          \* the number the next registered expectation gets
    dataCount,       \* the number of chunks the process has delivered
    lastOffered,     \* the arrival number of the chunk last given to runNextMatcher
    offeredNow,      \* the runNextMatcher calls of the last step: <<expectation, arrival number>>
    output,          \* the 'output' events emitted: how many, the last one, and
                     \* lastOffered when it was emitted
    wire,            \* what the process has printed and the terminal not yet delivered
    session,         \* the debug session: this._registers, how often it was
                     \* assigned, the Stopped events sent, and the number of
                     \* assignments made when the last of them was sent
    sent             \* the responses and events the debug session has sent, but
                     \* for the output events

vars == <<process, listening, matchers, outputBuffer, lineMap, instructionList,
          file, written, calls, resolved, nextId, dataCount, lastOffered,
          offeredNow, output, wire, session, sent>>

\* The matcher queue, the backlog and their history, as one value that the
\* operators below take and return.  ret is runNextMatcher's return value.
Queue ==
    [matchers |-> matchers, outputBuffer |-> outputBuffer, resolved |-> resolved,
     lastOffered |-> lastOffered, offeredNow |-> <<>>, ret |-> FALSE]

SetQueue(q) ==
    /\ matchers' = q.matchers
    /\ outputBuffer' = q.outputBuffer
    /\ resolved' = q.resolved
    /\ lastOffered' = q.lastOffered
    /\ offeredNow' = q.offeredNow

\* A backlog entry or a live chunk: the sanitized text, with its arrival number.
Entry(seq, data) == [seq |-> seq, data |-> data]

\* A matcher as matchResponse (single) or matchUntilInteractive (multi) queues
\* it.  id names its promise; seen is the text offered to a multi matcher so far.
SingleMatcher(id, pattern) ==
    [id |-> id, pattern |-> pattern, untilInteractive |-> FALSE, matches |-> <<>>,
     seen |-> <<>>]

MultiMatcher(id, pattern) ==
    [id |-> id, pattern |-> pattern, untilInteractive |-> TRUE, matches |-> <<>>,
     seen |-> <<>>]

\* A resolution that leaves the matcher in the queue.
ResolveKeep(q, matcher, value, entry) ==
    [q EXCEPT !.resolved = Append(@, [id |-> matcher.id,
                                      pattern |-> matcher.pattern,
                                      untilInteractive |-> matcher.untilInteractive,
                                      value |-> value,
                                      at |-> entry.seq,
                                      seen |-> <<>>]),
              !.ret = TRUE]

\* matcher.resolve(value); this.matchers.shift(); return true
ResolveHead(q, matcher, value, entry) ==
    [q EXCEPT !.resolved = Append(@, [id |-> matcher.id,
                                      pattern |-> matcher.pattern,
                                      untilInteractive |-> matcher.untilInteractive,
                                      value |-> value,
                                      at |-> entry.seq,
                                      seen |-> IF matcher.untilInteractive
                                               THEN Append(matcher.seen, entry.data)
                                               ELSE <<>>]),
              !.matchers = Tail(@),
              !.ret = TRUE]

\* matcher.matches.push(x); return false
PushMatch(q, x, entry) ==
    [q EXCEPT !.matchers[1].matches = Append(@, x),
              !.matchers[1].seen = Append(@, entry.data),
              !.ret = FALSE]

\* return false, after keeping the line in the backlog.
IgnoreToBacklog(q, matcher, entry) ==
    [q EXCEPT !.outputBuffer = Append(@, entry), !.ret = FALSE]

\* return false, for a line that changes nothing (a multi matcher remembers
\* having seen it).
Ignore(q, matcher, entry) ==
    IF matcher.untilInteractive
    THEN [q EXCEPT !.matchers[1].seen = Append(@, entry.data), !.ret = FALSE]
    ELSE [q EXCEPT !.ret = FALSE]

\* A shift that takes nothing away.
NotShifted(array) == array

\* array.shift() leaves an empty array empty.
Shifted(array) == IF array = <<>> THEN <<>> ELSE Tail(array)

\* q when runNextMatcher is entered with entry: the call is noted.
Offered(q, entry) ==
    [q EXCEPT !.lastOffered = entry.seq,
              !.offeredNow = Append(@, <<q.matchers[1].id, entry.seq>>)]

\* The body of runNextMatcher: matcher is this.matchers[0], and cr,
\* interactive and match are what the input gives for Runtime.carriageReturn,
\* Runtime.interactive and matcher.pattern.
RunMatcher(q, entry, matcher, cr, interactive, match) ==
    IF matcher.untilInteractive /\ Len(matcher.matches) = 0 /\ cr # Null
    THEN PushMatch(q, cr, entry)
    ELSE IF matcher.untilInteractive /\ interactive # Null
    THEN ResolveHead(q, matcher, Shifted(matcher.matches), entry)
    ELSE IF match # Null
    THEN IF matcher.untilInteractive
         THEN PushMatch(q, match, entry)
         ELSE ResolveHead(q, matcher, match, entry)
    ELSE Ignore(q, matcher, entry)

\* Runtime.runNextMatcher(input), on the head of the queue.
RunNextMatcher(q, entry) ==
    RunMatcher(Offered(q, entry), entry, q.matchers[1],
               MatchCarriageReturn(entry.data), MatchInteractive(entry.data),
               Match(q.matchers[1].pattern, entry.data))

\* A drain that takes the newest entry of the backlog.
DrainLast(q) ==
    RunNextMatcher([q EXCEPT !.outputBuffer = SubSeq(@, 1, Len(@) - 1)],
                   q.outputBuffer[Len(q.outputBuffer)])

\* q with the first entry of the backlog given to runNextMatcher:
\* this.runNextMatcher(this.outputBuffer.shift())
DrainOne(q) ==
    RunNextMatcher([q EXCEPT !.outputBuffer = Tail(@)], q.outputBuffer[1])

\* A drain that gives up after one entry.
DrainStop(r) == r

\* while (this.outputBuffer.length > 0) {
\*     if (this.runNextMatcher(this.outputBuffer.shift())) { return } }
\* Drain is the loop at its test, DrainNext the loop after a call that gave r.
RECURSIVE Drain(_), DrainNext(_)
Drain(q) == IF q.outputBuffer = <<>> THEN q ELSE DrainNext(DrainOne(q))

DrainNext(r) == IF r.ret THEN r ELSE Drain(r)

\* The executor of one promise: queue the matcher, then drain the backlog.
QueueMatcher(q, matcher) == Drain([q EXCEPT !.matchers = Append(@, matcher)])

\* Runtime.matchResponse(...patterns): the executors run in pattern order;
\* pattern k gets the expectation id + k - 1.
RECURSIVE MatchResponse(_, _, _)
MatchResponse(q, patterns, id) ==
    IF patterns = <<>> THEN q
    ELSE MatchResponse(QueueMatcher(q, SingleMatcher(id, Head(patterns))),
                       Tail(patterns), id + 1)

\* Runtime.matchUntilInteractive(pattern)
MatchUntilInteractive(q, pattern, id) == QueueMatcher(q, MultiMatcher(id, pattern))

\* The expectations a call registers: matchUntilInteractive(patterns[1]) with
\* multi, matchResponse(...patterns) without.
Register(q, multi, patterns, id) ==
    IF multi THEN MatchUntilInteractive(q, patterns[1], id)
    ELSE MatchResponse(q, patterns, id)

----------------------------------------------------------------------------
(* Commands *)

\* array[i] of JavaScript: undefined outside the array.
ArrayAt(array, i) ==
    IF 0 <= i /\ i < Len(array) THEN array[i + 1] ELSE Undefined

\* parts.join(' '): an undefined part is joined as the empty string.
RECURSIVE Join(_)
Join(parts) ==
    IF parts = <<>> THEN <<>>
    ELSE LET first == IF Head(parts) = Undefined THEN <<>> ELSE Head(parts)
         IN  IF Len(parts) = 1 THEN first
             ELSE first \o <<" ">> \o Join(Tail(parts))

\* The text sendCommand(command, ...args) gives to process.write.
CommandText(parts) == Join(parts) \o <<CR, LF>>

CmdR == <<"r">>

CmdBrc == <<"b", "r", "c">>

CmdBron == <<"b", "r", "o", "n">>

CmdG == <<"g">>

CmdBrl == <<"b", "r", "l">>

CmdS == <<"s">>

CmdU == <<"u">>

CmdExit == <<"e", "x", "i", "t">>

----------------------------------------------------------------------------
(* What the facade operations compute *)

\* The addresses setBreakpoints sets breakpoints at: lineMap[line] for a line
\* of the map, lineMap[lineMap.length] for any other.
BreakpointAddresses(map, lines) ==
    [k \in 1..Len(lines) |->
        IF lines[k] < Len(map) THEN ArrayAt(map, lines[k])
        ELSE ArrayAt(map, Len(map))]

\* Array.from(new Set(this.lineMap)).map((address) => parseInt(address, 16))
InstructionList(map) ==
    LET addresses == Distinct(map)
    IN  [k \in 1..Len(addresses) |-> ParseInt16(addresses[k])]

\* The lines found from the front of the map.
BreakpointFirstLines(map, addresses) ==
    [k \in 1..Len(addresses) |-> IndexOf(map, addresses[k])]

\* addresses.map((address) => this.lineMap.lastIndexOf(address))
BreakpointLines(map, addresses) ==
    [k \in 1..Len(addresses) |-> LastIndexOf(map, addresses[k])]

\* new Array(n).fill(pattern)
RECURSIVE Fill(_, _)
Fill(n, pattern) == IF n <= 0 THEN <<>> ELSE <<pattern>> \o Fill(n - 1, pattern)

\* disassemble: the instruction index of the requested address.
BaseInstr(list, address) ==
    LET endAddress == list[Len(list)]
    IN  IF address < 0 THEN address
        ELSE IF address > endAddress THEN Len(list) - 1 + address - endAddress
        ELSE IndexOf(list, address)

\* A window that starts at the requested address whatever the offset.
StartInstrAtBase(list, address, instructionOffset) == BaseInstr(list, address)

\* disassemble: the instruction index the window starts at.
StartInstr(list, address, instructionOffset) ==
    BaseInstr(list, address) + instructionOffset

NopInstruction == <<"0", "0">> \o Spaces(8) \o <<"n", "o", "p">>

\* A padding loop that runs up to index 0 and pads it too.
RECURSIVE NopRecordsThroughZero(_, _)
NopRecordsThroughZero(i, last) ==
    IF ~(i <= 0 /\ i < last) THEN <<>>
    ELSE << [address |-> IF i # -1 THEN ToString16(i) ELSE <<"-", "1", " ">>,
             instruction |-> <<"0", "0">> \o Spaces(8) \o <<"n", "o", "p">>,
             line |-> -1] >> \o NopRecordsThroughZero(i + 1, last)

\* disassemble: the nop records for the instruction indexes i, i + 1, ...
\* below 0 and below last.
RECURSIVE NopRecords(_, _)
NopRecords(i, last) ==
    IF ~(i < 0 /\ i < last) THEN <<>>
    ELSE << [address |-> IF i # -1 THEN ToString16(i) ELSE <<"-", "1", " ">>,
             instruction |-> NopInstruction,
             line |-> -1] >> \o NopRecords(i + 1, last)

\* disassemble: the arguments of the one 'u' command, <<>> when the debugger
\* is not called.
DebuggerArgs(list, address, instructionCount, instructionOffset) ==
    LET endAddress == list[Len(list)]
        startInstr == StartInstr(list, address, instructionOffset)
        debuggerStartAddress ==
            IF startInstr < 0 THEN 0
            ELSE IF startInstr >= Len(list)
            THEN endAddress + startInstr - (Len(list) - 1)
            ELSE list[startInstr + 1]
        debuggerInstructionCount ==
            IF startInstr < 0 THEN instructionCount + startInstr
            ELSE instructionCount
    IN  IF startInstr + instructionCount > 0
        THEN <<ToString16(debuggerStartAddress), ToString16(debuggerInstructionCount)>>
        ELSE <<>>

\* disassemble: the records made of the debugger's lines.
DebuggerRecords(map, endAddress, debuggerResults) ==
    [k \in 1..Len(debuggerResults) |->
        LET address == Group(debuggerResults[k], "address")
        IN  [address |-> address,
             instruction |-> Group(debuggerResults[k], "instruction"),
             line |-> IF ParseInt16(address) <= endAddress
                      THEN LastIndexOf(map, address) ELSE -1]]

\* parseRegisters: the snapshot made of the two register lines.
Registers(map, line1, line2) ==
    [groups |-> line1.groups \o line2.groups,
     line |-> LastIndexOf(map, Group(line1, "pc"))]

----------------------------------------------------------------------------
(* Calls of the facade operations and their completion *)

\* The record of resolved for expectation id.
Resolution(res, id) == res[CHOOSE k \in 1..Len(res) : res[k].id = id]

IsResolved(res, id) == \E k \in 1..Len(res) : res[k].id = id

\* Promise.all: the values of the promises, in the order of the promises.
PromiseAll(res, exps) == [k \in 1..Len(exps) |-> Resolution(res, exps[k]).value]

Returned(c, value) == [c EXCEPT !.state = "returned", !.result = value]

Thrown(c, value) == [c EXCEPT !.state = "thrown", !.result = value]

\* What a call does once the promises it awaits are resolved: the code after
\* its await, with the line map as it is then.
Finish(c, res, map) ==
    LET values == PromiseAll(res, c.exps)
    IN  CASE c.op \in {"initialize", "evaluate", "setVariable"} ->
               Returned(c, Undefined)
          [] c.op = "setBreakpoints" ->
               Returned(c, BreakpointLines(map, c.locals))
          [] c.op \in {"continue", "variables", "next"} ->
               IF map = UndefinedMap THEN Thrown(c, <<"TypeError">>)
               ELSE Returned(c, Registers(map, values[1], values[2]))
          [] c.op = "getBreakpoints" ->
               IF map = UndefinedMap /\ values[1] # <<>> THEN Thrown(c, <<"TypeError">>)
               ELSE Returned(c, [k \in 1..Len(values[1]) |->
                                   LastIndexOf(map, Group(values[1][k], "breakpoint"))])
          [] c.op = "readVariable" ->
               IF Group(values[2], "data") # Undefined
               THEN Returned(c, Group(values[2], "data"))
               ELSE Thrown(c, values[2].input)
          [] c.op = "disassemble" ->
               Returned(c, c.locals.results \o
                           (IF c.exps = <<>> THEN <<>>
                            ELSE DebuggerRecords(map, c.locals.endAddress, values[1])))

\* Every call that awaits promises which are all resolved runs to its end.
Settle(cs, res, map) ==
    [k \in 1..Len(cs) |->
        IF cs[k].state = "waiting" /\ \A j \in 1..Len(cs[k].exps) : IsResolved(res, cs[k].exps[j])
        THEN Finish(cs[k], res, map)
        ELSE cs[k]]

Call(op, args, locals, exps, state) ==
    [op |-> op, args |-> args, locals |-> locals, exps |-> exps, state |-> state,
     result |-> Undefined]

\* The commands a call writes, each with the number of the call.
Writes(k, commands) ==
    [j \in 1..Len(commands) |-> [call |-> k, text |-> CommandText(commands[j])]]

\* The ids of n expectations registered from nextId on.
NewIds(n) == [j \in 1..n |-> nextId + j - 1]

----------------------------------------------------------------------------
(* The debug session: what Cmon51DebugSession sends to its client *)

Response(command) == [kind |-> "response", name |-> command, body |-> <<>>]

Event(name, body) == [kind |-> "event", name |-> name, body |-> body]

\* The operations whose request handler sends its response before it calls
\* the Runtime, and those whose handler sends it after the call has returned.
RespondsFirst == {"initialize", "continue", "next", "terminate", "disconnect"}

RespondsLast == {"setBreakpoints", "evaluate", "setVariable", "disassemble"}

\* What the handler of the request for op sends before it calls the Runtime.
RequestSends(op) == IF op \in RespondsFirst THEN <<Response(op)>> ELSE <<>>

\* What the handler sends after its await, once call c has returned or
\* thrown.  Only terminateRequest catches; in the other handlers a call that
\* throws ends the handler.  variables, getBreakpoints and readVariable have
\* no request handler that calls them.
CompletionSends(c) ==
    CASE c.op = "terminate" ->
           <<Event("terminated", <<>>),
             Event("exited", <<IF c.state = "thrown" THEN c.result ELSE 0>>)>>
      [] c.op # "terminate" /\ c.state = "thrown" -> <<>>
      [] c.op = "initialize" /\ c.state = "returned" -> <<Event("initialized", <<>>)>>
      [] c.op = "continue" /\ c.state = "returned" -> <<Event("stopped", <<"breakpoint">>)>>
      [] c.op = "next" /\ c.state = "returned" -> <<Event("stopped", <<"step">>)>>
      [] c.op \in RespondsLast /\ c.state = "returned" -> <<Response(c.op)>>
      [] OTHER -> <<>>

Settled(c) == c.state \in {"returned", "thrown"}

\* What the handlers send for the calls from number k on that were not
\* settled in before and are settled in after, in the order of the calls.
RECURSIVE Completions(_, _, _)
Completions(before, after, k) ==
    IF k > Len(after) THEN <<>>
    ELSE (IF Settled(after[k]) /\ ~(k <= Len(before) /\ Settled(before[k]))
          THEN CompletionSends(after[k]) ELSE <<>>)
         \o Completions(before, after, k + 1)

\* The debug session as its constructor leaves it.
NewSession == [registers |-> Undefined, stored |-> 0, stopped |-> 0, seen |-> 0]

\* A handler that sends the Stopped event before it stores the snapshot.
StoppedBeforeStore(s, c) ==
    [registers |-> c.result, stored |-> s.stored + 1, stopped |-> s.stopped + 1,
     seen |-> s.stored]

\* continueRequest and nextRequest after their await, call c having
\* returned: this._registers = <what c returned>, then sendEvent(Stopped).
StoreThenStopped(s, c) ==
    [registers |-> c.result, stored |-> s.stored + 1, stopped |-> s.stopped + 1,
     seen |-> s.stored + 1]

\* The session after the handlers went on for the calls from number k on
\* that were not settled in before and are settled in after.
RECURSIVE Stops(_, _, _, _)
Stops(s, before, after, k) ==
    IF k > Len(after) THEN s
    ELSE Stops(IF /\ after[k].op \in {"continue", "next"}
                  /\ after[k].state = "returned"
                  /\ ~(k <= Len(before) /\ Settled(before[k]))
               THEN StoreThenStopped(s, after[k]) ELSE s,
               before, after, k + 1)

\* convertDebuggerLineToClient: the lines of the debugger start at 0
\* (setDebuggerLinesStartAt1(false)), those of the client at 1.
ConvertDebuggerLineToClient(line) == line + 1

\* The response of stackTraceRequest: the line and the
\* instructionPointerReference of its one frame.
StackTraceResponse(registers) ==
    [kind |-> "response", name |-> "stackTrace",
     body |-> <<ConvertDebuggerLineToClient(registers.line),
                Group(registers, "pc")>>]

----------------------------------------------------------------------------
(* Bounds and inputs *)

\* The facade operations called in one run.
MaxCalls == 2

\* The chunks the process delivers in one run.
MaxData == 4

\* The chunks that may wait in the backlog.
MaxBuffer == 2

\* The assembly files, and what parseLst reads from the listing of each: a
\* map of distinct addresses, and one where two lines share an address.
Files == {"f1", "f2"}

Listing(f) ==
    IF f = "f1"
    THEN << <<"0", "0", "0", "0">>, <<"0", "0", "0", "2">>, <<"0", "0", "0", "4">> >>
    ELSE << <<"8", "0", "0", "0">>, <<"8", "0", "0", "3">>, <<"8", "0", "0", "3">>,
            <<"8", "0", "0", "6">> >>

\* The lists of lines setBreakpoints is called with: inside and beyond the maps.
LineLists == {<<>>, <<1>>, <<0, 2>>, <<4>>}

Prompt == <<">", " ">>

EchoLine == <<"b", "r", "l", CR, LF>>

RegisterLine1 ==
    <<"A", " ", "=", "1", "F">> \o Reg1Literals[2] \o Reg1Literals[3]
    \o Reg1Literals[4] \o Reg1Literals[5] \o Reg1Literals[6] \o Reg1Literals[7]
    \o Reg1Literals[8] \o <<"8", "0", "0", "3", CR, LF>>

RegisterLine2 ==
    Reg2Literals[1] \o Reg2Literals[2] \o Reg2Literals[3] \o Reg2Literals[4]
    \o Reg2Literals[5] \o Reg2Literals[6] \o Reg2Literals[7] \o Reg2Literals[8]
    \o Reg2Literals[9] \o <<"0", CR, LF>>

DisasmLine == <<"8", "0", "0", "3", ":", " ", "n", "o", "p", CR, LF>>

HexValue == <<"1", "F">>

\* A prompt as the terminal draws it: an attribute reset, and a cursor
\* movement in place of the blank.
DrawnPrompt == <<ESC, "[", "0", "m", ">", ESC, "[", "1", "C">>

\* The raw chunks the process may deliver.
Chunks ==
    {Prompt, EchoLine, RegisterLine1, RegisterLine2, DisasmLine, HexValue,
     DrawnPrompt, RegisterLine1 \o RegisterLine2 \o Prompt}

EvaluateInputs == {CmdBrl}

RegisterNames == {<<"A">>}

RegisterValues == {<<"1", "F">>}

\* The requests disassemble is called with: <<address, count, offset>>.
DisassembleRequests ==
    {<<32768, 4, -2>>, <<32771, 2, 0>>, <<32768, 2, -2>>, <<32772, 1, 0>>}

ExitCodes == {0, 1}

----------------------------------------------------------------------------
(* The operations *)

CanCall == process = "running"

\* cs with c as its k-th call: a new call, or a call that goes on.
Put(cs, k, c) == IF k = Len(cs) + 1 THEN Append(cs, c) ELSE [cs EXCEPT ![k] = c]

\* Call number k writes commands and then awaits matchResponse(...patterns)
\* or, with multi, matchUntilInteractive(patterns[1]); map is this.lineMap
\* after the step.  All of it is one step: the body of an async function runs
\* up to its first await without giving way, and the executors of the
\* promises run when the promises are made.
Begin(k, op, args, locals, commands, multi, patterns, map) ==
    \E q \in {Register(Queue, multi, patterns, nextId)} :
        /\ written' = written \o Writes(k, commands)
        /\ SetQueue(q)
        /\ nextId' = nextId + Len(patterns)
        /\ calls' = Settle(Put(calls, k, Call(op, args, locals, NewIds(Len(patterns)),
                                              "waiting")),
                           q.resolved, map)
        /\ session' = Stops(session, calls, calls', 1)
        /\ sent' = sent \o (IF k > Len(calls) THEN RequestSends(op) ELSE <<>>)
                        \o Completions(calls, calls', 1)

\* A step that calls runNextMatcher for nothing.
NoMatching ==
    /\ offeredNow' = <<>>
    /\ UNCHANGED <<matchers, outputBuffer, resolved, lastOffered, nextId>>

\* A handshake that waits for the prompt only.
InitializeOnlyPrompt == <<"interactive">>

\* await this.matchResponse(/A =/, Runtime.interactive)
InitializePatterns == <<"AEq", "interactive">>

\* Runtime.initialize(): spawn the process, install the output listener, write
\* the dummy command, await its answer.
Initialize ==
    /\ process = "none"
    /\ process' = "running"
    /\ listening' = TRUE
    /\ Begin(Len(calls) + 1, "initialize", <<>>, <<>>, <<<<CmdR>>>>, FALSE,
             InitializePatterns, lineMap)
    /\ UNCHANGED <<lineMap, instructionList, file, dataCount, output, wire>>

\* setBreakpoints from the assignment of this.lineMap on, as call number k.
SetBreakpointsRest(k, f, lines, map) ==
    \E addresses \in {BreakpointAddresses(map, lines)} :
        /\ lineMap' = map
        /\ instructionList' = InstructionList(map)
        /\ Begin(k, "setBreakpoints", <<f, lines>>, addresses,
                 <<<<CmdBrc>>>> \o [j \in 1..Len(addresses) |-> <<CmdBron, addresses[j]>>],
                 FALSE, Fill(Len(addresses) + 1, "interactive"), map)

\* A line map that is never taken as read.
NoLineMap(map) == FALSE

\* this.lineMap || ...: the line map has been read.
HasLineMap(map) == map # UndefinedMap

\* A call that clears the breakpoints before it reads the listing.
ClearBeforeRead(k) == Writes(k, <<<<CmdBrc>>>>)

\* The commands call k of setBreakpoints writes before it awaits parseLst: none.
CommandsBeforeRead(k) == <<>>

\* Runtime.setBreakpoints(file, lines) up to its first await: with a line map
\* it goes on at once, without one it awaits parseLst(file).
SetBreakpoints(f, lines) ==
    /\ CanCall
    /\ file' = f
    /\ IF HasLineMap(lineMap)
       THEN SetBreakpointsRest(Len(calls) + 1, f, lines, lineMap)
       ELSE /\ calls' = Append(calls, Call("setBreakpoints", <<f, lines>>, <<>>, <<>>, "reading"))
            /\ written' = written \o CommandsBeforeRead(Len(calls) + 1)
            /\ NoMatching
            /\ UNCHANGED <<lineMap, instructionList, session, sent>>
    /\ UNCHANGED <<process, listening, dataCount, output, wire>>

\* parseLst(file) resolves: call k of setBreakpoints assigns what was read to
\* this.lineMap and goes on.
ParseLstDone(k) ==
    /\ process = "running"
    /\ calls[k].state = "reading"
    /\ SetBreakpointsRest(k, calls[k].args[1], calls[k].args[2], Listing(calls[k].args[1]))
    /\ UNCHANGED <<process, listening, file, dataCount, output, wire>>

\* An operation that writes one command and awaits single matchers.
Simple(op, args, command, patterns) ==
    /\ CanCall
    /\ Begin(Len(calls) + 1, op, args, <<>>, <<command>>, FALSE, patterns, lineMap)
    /\ UNCHANGED <<process, listening, lineMap, instructionList, file, dataCount, output, wire>>

ParseRegistersPatterns == <<"reg1", "reg2", "interactive">>

\* Runtime.continue()
Continue == Simple("continue", <<>>, <<CmdG>>, ParseRegistersPatterns)

\* Runtime.variables()
Variables == Simple("variables", <<>>, <<CmdR>>, ParseRegistersPatterns)

\* Runtime.next()
StepNext == Simple("next", <<>>, <<CmdS>>, ParseRegistersPatterns)

\* Runtime.evaluate(input)
Evaluate(input) == Simple("evaluate", <<input>>, <<input>>, <<"interactive">>)

\* Runtime.setVariable(register, value)
SetVariable(register, value) ==
    Simple("setVariable", <<register, value>>, <<register \o <<"=">> \o value>>,
           <<"interactive">>)

\* Runtime.readVariable(register)
ReadVariable(register) ==
    Simple("readVariable", <<register>>, <<register>>, <<"carriageReturn", "dataOrCr">>)

\* Runtime.getBreakpoints()
GetBreakpoints ==
    /\ CanCall
    /\ Begin(Len(calls) + 1, "getBreakpoints", <<>>, <<>>, <<<<CmdBrl>>>>, TRUE,
             <<"breakpoint">>, lineMap)
    /\ UNCHANGED <<process, listening, lineMap, instructionList, file, dataCount, output, wire>>

\* An instruction list that is never missed.
AnyInstructionList(list) == FALSE

\* this.instructionList[this.instructionList.length - 1] throws a TypeError
\* while this.instructionList is undefined.
NoInstructionList(list) == list = UndefinedList

\* Runtime.disassemble(address, instructionCount, instructionOffset): without
\* an instruction list it throws at its first line; else it makes the nop
\* records and, when the range reaches index 0, calls the debugger.
Disassemble(address, instructionCount, instructionOffset) ==
    /\ CanCall
    /\ IF NoInstructionList(instructionList)
       THEN /\ calls' = Append(calls,
                   Thrown(Call("disassemble", <<address, instructionCount, instructionOffset>>,
                               <<>>, <<>>, "waiting"), <<"TypeError">>))
            /\ NoMatching
            /\ UNCHANGED <<written, session, sent>>
       ELSE \E args \in {DebuggerArgs(instructionList, address, instructionCount,
                                      instructionOffset)} :
                Begin(Len(calls) + 1, "disassemble",
                      <<address, instructionCount, instructionOffset>>,
                      [endAddress |-> instructionList[Len(instructionList)],
                       results |-> NopRecords(
                           StartInstr(instructionList, address, instructionOffset),
                           StartInstr(instructionList, address, instructionOffset)
                               + instructionCount)],
                      IF args = <<>> THEN <<>> ELSE <<<<CmdU>> \o args>>,
                      args # <<>>,
                      IF args = <<>> THEN <<>> ELSE <<"disasm">>, lineMap)
    /\ UNCHANGED <<process, listening, lineMap, instructionList, file, dataCount, output, wire>>

\* Runtime.terminate(): write the exit command and wait for the process to exit.
Terminate ==
    /\ CanCall
    /\ written' = written \o Writes(Len(calls) + 1, <<<<CmdExit>>>>)
    /\ calls' = Append(calls, Call("terminate", <<>>, <<>>, <<>>, "exiting"))
    /\ sent' = sent \o RequestSends("terminate")
    /\ UNCHANGED session
    /\ NoMatching
    /\ UNCHANGED <<process, listening, lineMap, instructionList, file, dataCount, output, wire>>

\* A dispose that leaves the listener where it is.
DisposeNothing(installed) == installed

\* this.dataListener.dispose(): the listener is no longer installed.
Dispose(installed) == FALSE

\* Runtime.disconnect(): kill the process and dispose of the output listener.
Disconnect ==
    /\ CanCall
    /\ process' = "killed"
    /\ listening' = Dispose(listening)
    /\ calls' = Append(calls, Returned(Call("disconnect", <<>>, <<>>, <<>>, "waiting"),
                                       Undefined))
    /\ sent' = sent \o RequestSends("disconnect")
    /\ UNCHANGED session
    /\ NoMatching
    /\ UNCHANGED <<lineMap, instructionList, file, written, dataCount, output, wire>>

\* An exit listener that resolves whatever the exit code.
ExitResolves(c, exitCode) == Returned(c, Undefined)

\* if (exitCode !== 0) { reject(exitCode) } else { resolve() }
ExitOutcome(c, exitCode) ==
    IF exitCode # 0 THEN Thrown(c, exitCode) ELSE Returned(c, Undefined)

\* The process exits: the exit listener of every terminate call disposes of
\* itself and of the output listener, and settles its promise.
OnExit(exitCode) ==
    /\ process \in {"running", "killed"}
    /\ process' = "exited"
    /\ listening' = IF \E k \in 1..Len(calls) : calls[k].state = "exiting"
                    THEN Dispose(listening) ELSE listening
    /\ calls' = [k \in 1..Len(calls) |->
                    IF calls[k].state # "exiting" THEN calls[k]
                    ELSE ExitOutcome(calls[k], exitCode)]
    /\ session' = Stops(session, calls, calls', 1)
    /\ sent' = sent \o Completions(calls, calls', 1)
    /\ NoMatching
    /\ UNCHANGED <<lineMap, instructionList, file, written, dataCount, output, wire>>

\* An emit of the sanitized text.
EmitSanitized(out, rawData, offered) ==
    [count |-> out.count + 1, last |-> Sanitize(rawData), offered |-> offered]

\* this.emit('output', rawData), the first statement of the listener: the
\* session sends rawData in an OutputEvent.  offered is lastOffered then.
Emit(out, rawData, offered) ==
    [count |-> out.count + 1, last |-> rawData, offered |-> offered]

\* The output listener, called with the chunk rawData: a process that has
\* been killed and has not yet exited may still print.
Receive(rawData) ==
    /\ process \in {"running", "killed"}
    /\ listening
    /\ output' = Emit(output, rawData, lastOffered)
    /\ dataCount' = dataCount + 1
    /\ \E entry \in {Entry(dataCount + 1, Sanitize(rawData))} :
           IF Len(matchers) > 0
           THEN \E q \in {RunNextMatcher(Queue, entry)} :
                    /\ SetQueue(q)
                    /\ calls' = Settle(calls, q.resolved, lineMap)
                    /\ session' = Stops(session, calls, calls', 1)
                    /\ sent' = sent \o Completions(calls, calls', 1)
           ELSE /\ outputBuffer' = Append(outputBuffer, entry)
                /\ offeredNow' = <<>>
                /\ UNCHANGED <<matchers, resolved, lastOffered, calls, session, sent>>
    /\ UNCHANGED <<process, listening, lineMap, instructionList, file, written, nextId>>

\* The terminal delivers the chunk rawData, whatever the process printed.
OnData(rawData) == Receive(rawData) /\ UNCHANGED wire

\* The terminal delivers the first n characters of what the process printed
\* as one chunk.
Deliver(n) ==
    /\ n \in 1..Len(wire)
    /\ Receive(SubSeq(wire, 1, n))
    /\ wire' = SubSeq(wire, n + 1, Len(wire))

----------------------------------------------------------------------------
(* The specification *)

\* A Runtime as its constructor leaves it.
Fresh ==
    /\ process = "none"
    /\ listening = FALSE
    /\ matchers = <<>>
    /\ outputBuffer = <<>>
    /\ lineMap = UndefinedMap
    /\ instructionList = UndefinedList
    /\ file = "undefined"
    /\ written = <<>>
    /\ calls = <<>>
    /\ resolved = <<>>
    /\ nextId = 1
    /\ dataCount = 0
    /\ lastOffered = 0
    /\ offeredNow = <<>>
    /\ output = [count |-> 0, last |-> <<>>, offered |-> 0]
    /\ session = NewSession
    /\ sent = <<>>

Init == Fresh /\ wire = <<>>

\* The bounds of a run: fewer than n calls made, and fewer than n chunks
\* delivered with room in the backlog for one more.
CallsBelow(n) == Len(calls) < n

DataBelow(n) == dataCount < n /\ (matchers = <<>> => Len(outputBuffer) < MaxBuffer)

Next ==
    \/ CallsBelow(MaxCalls) /\ Initialize
    \/ CallsBelow(MaxCalls) /\ \E f \in Files, lines \in LineLists : SetBreakpoints(f, lines)
    \/ \E k \in 1..Len(calls) : ParseLstDone(k)
    \/ CallsBelow(MaxCalls) /\ Continue
    \/ CallsBelow(MaxCalls) /\ Variables
    \/ CallsBelow(MaxCalls) /\ StepNext
    \/ CallsBelow(MaxCalls) /\ \E input \in EvaluateInputs : Evaluate(input)
    \/ CallsBelow(MaxCalls) /\ \E register \in RegisterNames, value \in RegisterValues :
                                   SetVariable(register, value)
    \/ CallsBelow(MaxCalls) /\ \E register \in RegisterNames : ReadVariable(register)
    \/ CallsBelow(MaxCalls) /\ GetBreakpoints
    \/ CallsBelow(MaxCalls) /\ \E request \in DisassembleRequests :
                                   Disassemble(request[1], request[2], request[3])
    \/ CallsBelow(MaxCalls) /\ Terminate
    \/ CallsBelow(MaxCalls) /\ Disconnect
    \/ \E exitCode \in ExitCodes : OnExit(exitCode)
    \/ DataBelow(MaxData) /\ \E rawData \in Chunks : OnData(rawData)

Spec == Init /\ [][Next]_vars

----------------------------------------------------------------------------
(* The queue of expectations and the backlog *)

\* The expectations registered so far are numbered 1 .. nextId - 1 in the
\* order of their registration.
Registered == 1..(nextId - 1)

\* C2: an expectation is resolved at most once; the queue holds the
\* unresolved expectations in the order of their registration, and every
\* chunk is tested against the oldest unresolved one only; expectations are
\* resolved in the order of their registration, by different chunks; and
\* readVariable, which awaits matchResponse(carriageReturn, value), gets the
\* match of its second pattern as the second match.
FifoResolution ==
    /\ \A j, k \in 1..Len(resolved) : resolved[j].id = resolved[k].id => j = k
    /\ \A k \in 1..Len(resolved) :
           /\ resolved[k].id = k
           /\ k > 1 => resolved[k - 1].at < resolved[k].at
    /\ Len(matchers) = nextId - 1 - Len(resolved)
    /\ \A i \in 1..Len(matchers) : matchers[i].id = Len(resolved) + i
    /\ \A i \in 1..Len(offeredNow) :
           /\ offeredNow[i][1] \in Registered
           /\ \A id \in 1..(offeredNow[i][1] - 1) :
                  \E k \in 1..Len(resolved) :
                      resolved[k].id = id /\ resolved[k].at < offeredNow[i][2]
           /\ \A k \in 1..Len(resolved) :
                  resolved[k].id = offeredNow[i][1] => resolved[k].at >= offeredNow[i][2]
    /\ \A c \in 1..Len(calls) :
           (calls[c].op = "readVariable" /\ calls[c].state \in {"returned", "thrown"}) =>
               \E k \in 1..Len(resolved) :
                   /\ resolved[k].id = calls[c].exps[2]
                   /\ resolved[k].pattern = "dataOrCr"
                   /\ IF Group(resolved[k].value, "data") # Undefined
                      THEN /\ calls[c].state = "returned"
                           /\ calls[c].result = Group(resolved[k].value, "data")
                      ELSE /\ calls[c].state = "thrown"
                           /\ calls[c].result = resolved[k].value.input

\* initialize and then readVariable have had their four expectations
\* resolved, and readVariable has returned the value.
FifoResolved ==
    /\ Len(resolved) = 4
    /\ Len(calls) = 2
    /\ calls[2].op = "readVariable"
    /\ calls[2].state = "returned"

\* C3: the backlog holds, in the order of their arrival, exactly the chunks
\* that were never given to an expectation, the last one as the listener
\* sanitized it; the chunks are given to expectations in the order of their
\* arrival, none skipped, so a chunk of the backlog before any later chunk;
\* and no chunk is given to an expectation after the one that resolved it.
BacklogInArrivalOrder ==
    /\ Len(outputBuffer) = dataCount - lastOffered
    /\ \A i \in 1..Len(outputBuffer) : outputBuffer[i].seq = lastOffered + i
    /\ outputBuffer # <<>> =>
           outputBuffer[Len(outputBuffer)].data = Sanitize(output.last)
    /\ \A i \in 1..Len(offeredNow) :
           /\ offeredNow[i][2] = lastOffered - Len(offeredNow) + i
           /\ \A k \in 1..Len(resolved) :
                  resolved[k].id = offeredNow[i][1] => offeredNow[i][2] <= resolved[k].at

\* A registration has drained the backlog up to the chunk that resolved the
\* expectation, and a later chunk is still in the backlog.
DrainStoppedAtResolver ==
    /\ offeredNow # <<>>
    /\ outputBuffer # <<>>
    /\ resolved # <<>>
    /\ resolved[Len(resolved)].at = lastOffered

\* C4: whenever an expectation is in the queue the backlog is empty.
BacklogEmptyWhileExpecting == outputBuffer # <<>> => matchers = <<>>

\* A registration has given both chunks of the backlog to its expectation,
\* which neither resolved: the expectation waits and the backlog is empty.
BacklogDrainedToWaiting ==
    /\ Len(offeredNow) = 2
    /\ offeredNow[1][1] = offeredNow[2][1]
    /\ matchers # <<>>
    /\ outputBuffer = <<>>

----------------------------------------------------------------------------
(* Sessions that have come further *)

\* The queue of a fresh Runtime.
EmptyQueue ==
    [matchers |-> <<>>, outputBuffer |-> <<>>, resolved |-> <<>>, lastOffered |-> 0,
     offeredNow |-> <<>>, ret |-> FALSE]

\* q at the start of the next step.
NewStep(q) == [q EXCEPT !.offeredNow = <<>>, !.ret = FALSE]

\* The queue after initialize() and the chunks RegisterLine1 and Prompt.
ReadyQueue ==
    RunNextMatcher(
        NewStep(RunNextMatcher(NewStep(MatchResponse(EmptyQueue, InitializePatterns, 1)),
                               Entry(1, Sanitize(RegisterLine1)))),
        Entry(2, Sanitize(Prompt)))

ReadyCalls ==
    Settle(<<Call("initialize", <<>>, <<>>, <<1, 2>>, "waiting")>>, ReadyQueue.resolved,
           UndefinedMap)

\* The state Spec reaches by Initialize, OnData(RegisterLine1), OnData(Prompt):
\* initialize has returned.
InitReady ==
    /\ process = "running"
    /\ listening = TRUE
    /\ matchers = ReadyQueue.matchers
    /\ outputBuffer = ReadyQueue.outputBuffer
    /\ lineMap = UndefinedMap
    /\ instructionList = UndefinedList
    /\ file = "undefined"
    /\ written = Writes(1, <<<<CmdR>>>>)
    /\ calls = ReadyCalls
    /\ resolved = ReadyQueue.resolved
    /\ nextId = 3
    /\ dataCount = 2
    /\ lastOffered = ReadyQueue.lastOffered
    /\ offeredNow = ReadyQueue.offeredNow
    /\ output = [count |-> 2, last |-> Prompt, offered |-> 1]
    /\ wire = <<>>
    /\ session = NewSession
    /\ sent = <<Response("initialize"), Event("initialized", <<>>)>>

\* The file and the line of the breakpoint set in the sessions below.
MappedFile == "f2"

MappedLines == <<1>>

\* The queue after setBreakpoints(MappedFile, MappedLines), called when
\* initialize has returned, and one Prompt for each of its two commands.
MappedQueue ==
    RunNextMatcher(
        NewStep(RunNextMatcher(
                    NewStep(MatchResponse(NewStep(ReadyQueue),
                                          <<"interactive", "interactive">>, 3)),
                    Entry(3, Sanitize(Prompt)))),
        Entry(4, Sanitize(Prompt)))

MappedCalls ==
    Settle(ReadyCalls
           \o <<Call("setBreakpoints", <<MappedFile, MappedLines>>,
                     BreakpointAddresses(Listing(MappedFile), MappedLines), <<3, 4>>,
                     "waiting")>>,
           MappedQueue.resolved, Listing(MappedFile))

\* The state reached from InitReady by SetBreakpoints(MappedFile, MappedLines),
\* ParseLstDone(2), OnData(Prompt), OnData(Prompt): setBreakpoints has
\* returned, the line map and the instruction list are there.
InitMapped ==
    /\ process = "running"
    /\ listening = TRUE
    /\ matchers = MappedQueue.matchers
    /\ outputBuffer = MappedQueue.outputBuffer
    /\ lineMap = Listing(MappedFile)
    /\ instructionList = InstructionList(Listing(MappedFile))
    /\ file = MappedFile
    /\ written = Writes(1, <<<<CmdR>>>>)
                 \o Writes(2, <<<<CmdBrc>>,
                                <<CmdBron, Listing(MappedFile)[MappedLines[1] + 1]>>>>)
    /\ calls = MappedCalls
    /\ resolved = MappedQueue.resolved
    /\ nextId = 5
    /\ dataCount = 4
    /\ lastOffered = MappedQueue.lastOffered
    /\ offeredNow = MappedQueue.offeredNow
    /\ output = [count |-> 4, last |-> Prompt, offered |-> 3]
    /\ wire = <<>>
    /\ session = NewSession
    /\ sent = <<Response("initialize"), Event("initialized", <<>>),
                Response("setBreakpoints")>>

----------------------------------------------------------------------------
(* setBreakpoints *)

MaxBreakCalls == 2

MaxBreakData == 5

BlankLine == <<CR, LF>>

BreakChunks == {Prompt, DrawnPrompt, BlankLine}

NextBreak ==
    \/ CallsBelow(MaxBreakCalls) /\ \E f \in Files, lines \in LineLists : SetBreakpoints(f, lines)
    \/ \E k \in 1..Len(calls) : ParseLstDone(k)
    \/ DataBelow(MaxBreakData) /\ \E rawData \in BreakChunks : OnData(rawData)

SpecBreak == InitReady /\ [][NextBreak]_vars

\* Call k of setBreakpoints writes its commands in this step.
WritesNow(k) ==
    /\ calls'[k].op = "setBreakpoints"
    /\ calls'[k].state # "reading"
    /\ k > Len(calls) \/ calls[k].state = "reading"

\* Call k of setBreakpoints returns in this step.
ReturnsNow(k) ==
    /\ calls'[k].op = "setBreakpoints"
    /\ calls'[k].state = "returned"
    /\ k > Len(calls) \/ calls[k].state # "returned"

\* The texts written in this step.
WrittenNow == [j \in 1..(Len(written') - Len(written)) |-> written'[Len(written) + j].text]

\* The highest 0-based index of map with the address, -1 without one.
HighestLine(map, address) ==
    IF \A i \in 1..Len(map) : map[i] # address THEN -1
    ELSE CHOOSE l \in 0..(Len(map) - 1) :
             /\ map[l + 1] = address
             /\ \A i \in (l + 2)..Len(map) : map[i] # address

PairwiseDistinct(map) == \A i, j \in 1..Len(map) : map[i] = map[j] => i = j

\* C6: a call of setBreakpoints whose lines are all lines of the map writes,
\* in the step in which it writes, 'brc' and then 'bron' with the address of
\* each line in the order of the request, and registers one prompt
\* expectation for each command; in the step in which it returns, all these
\* are resolved by lines with the prompt marker, and it returns for each line
\* the highest index of the map with the address of the line, which is the
\* requested list when the addresses of the map are pairwise distinct.
SetBreakpointsInsideMap ==
    [][\A k \in 1..Len(calls') :
          LET lines == calls'[k].args[2]
              inside == \A j \in 1..Len(lines) : lines[j] < Len(lineMap')
          IN  /\ (WritesNow(k) /\ inside) =>
                     /\ WrittenNow
                            = [j \in 1..(Len(lines) + 1) |->
                                  IF j = 1 THEN CmdBrc \o <<CR, LF>>
                                  ELSE CmdBron \o <<" ">> \o lineMap'[lines[j - 1] + 1]
                                       \o <<CR, LF>>]
                     /\ calls'[k].exps = [j \in 1..(Len(lines) + 1) |-> nextId + j - 1]
                     /\ nextId' = nextId + Len(lines) + 1
                     /\ \A j \in 1..(Len(lines) + 1) :
                            \/ \E m \in 1..Len(matchers') :
                                   /\ matchers'[m].id = nextId + j - 1
                                   /\ matchers'[m].pattern = "interactive"
                                   /\ ~matchers'[m].untilInteractive
                            \/ \E r \in 1..Len(resolved') :
                                   /\ resolved'[r].id = nextId + j - 1
                                   /\ resolved'[r].pattern = "interactive"
                                   /\ ~resolved'[r].untilInteractive
              /\ (ReturnsNow(k) /\ inside
                     /\ \A j \in 1..Len(lines) :
                            calls'[k].locals[j] = lineMap'[lines[j] + 1]) =>
                     /\ \A j \in 1..Len(calls'[k].exps) :
                            \E r \in 1..Len(resolved') :
                                /\ resolved'[r].id = calls'[k].exps[j]
                                /\ MatchInteractive(resolved'[r].value.input) # Null
                     /\ calls'[k].result
                            = [j \in 1..Len(lines) |->
                                  HighestLine(lineMap', lineMap'[lines[j] + 1])]
                     /\ PairwiseDistinct(lineMap') => calls'[k].result = lines
      ]_vars

\* setBreakpoints for the lines 0 and 2 of the map in which the lines 1 and 2
\* share an address has returned these lines.
SetBreakpointsReturned ==
    \E k \in 1..Len(calls) :
        /\ calls[k].op = "setBreakpoints"
        /\ calls[k].state = "returned"
        /\ calls[k].args = <<"f2", <<0, 2>>>>
        /\ calls[k].result = <<0, 2>>
        /\ ~PairwiseDistinct(lineMap)

\* C7: for a requested line that is no line of the map, setBreakpoints
\* writes 'bron' with the address of the last entry of the map, and returns
\* the highest index of the map with that address.
\* Refuted: the address it takes is lineMap[lineMap.length], which is undefined.
BeyondMapUsesLastEntry ==
    [][\A k \in 1..Len(calls') :
          LET lines == calls'[k].args[2]
              final == lineMap'[Len(lineMap')]
          IN  (WritesNow(k) \/ ReturnsNow(k)) =>
                  \A j \in 1..Len(lines) :
                      lines[j] >= Len(lineMap') =>
                          /\ WritesNow(k) =>
                                 /\ Len(WrittenNow) = Len(lines) + 1
                                 /\ WrittenNow[j + 1]
                                        = CmdBron \o <<" ">> \o final \o <<CR, LF>>
                          /\ ReturnsNow(k) =>
                                 calls'[k].result[j] = HighestLine(lineMap', final)
      ]_vars

----------------------------------------------------------------------------
(* getBreakpoints: a multi expectation *)

MaxMultiCalls == 3

MaxMultiData == 8

BreakpointLine1 == <<"8", "0", "0", "0", CR, LF>>

BreakpointLine2 == <<"8", "0", "0", "3", CR, LF>>

MultiChunks == {EchoLine, BreakpointLine1, BreakpointLine2, BlankLine, Prompt}

NextMulti ==
    \/ CallsBelow(MaxMultiCalls) /\ GetBreakpoints
    \/ DataBelow(MaxMultiData) /\ \E rawData \in MultiChunks : OnData(rawData)

SpecMulti == InitMapped /\ [][NextMulti]_vars

\* The matches of pattern in lines[from .. to], in order.
RECURSIVE ContentMatches(_, _, _, _)
ContentMatches(pattern, lines, from, to) ==
    IF from > to THEN <<>>
    ELSE (IF Match(pattern, lines[from]) # Null
          THEN <<Match(pattern, lines[from])>> ELSE <<>>)
         \o ContentMatches(pattern, lines, from + 1, to)

\* The text of the command that the call awaiting expectation id wrote.
CommandOf(id) ==
    LET c == CHOOSE c \in 1..Len(calls) :
                 \E j \in 1..Len(calls[c].exps) : calls[c].exps[j] = id
        w == CHOOSE w \in 1..Len(written) : written[w].call = c
    IN  written[w].text

\* C5: a multi expectation whose first line is the echo of its command is
\* resolved by the first line after the echo that holds the prompt marker,
\* with the matches of its pattern in the lines between the two, in order:
\* the echo and the prompt line are left out and no match is.
MultiCollectsBetweenEchoAndPrompt ==
    \A k \in 1..Len(resolved) :
        (resolved[k].untilInteractive /\ resolved[k].seen[1] = CommandOf(resolved[k].id)) =>
            LET seen == resolved[k].seen
                prompts == {i \in 2..Len(seen) : MatchInteractive(seen[i]) # Null}
            IN  /\ prompts = {Len(seen)}
                /\ resolved[k].value
                       = ContentMatches(resolved[k].pattern, seen, 2, Len(seen) - 1)

\* getBreakpoints has got the echo, two breakpoint lines and the prompt, and
\* has returned two lines.
MultiCollectedTwo ==
    \E k \in 1..Len(resolved) :
        /\ resolved[k].untilInteractive
        /\ resolved[k].seen[1] = EchoLine
        /\ Len(resolved[k].seen) = 4
        /\ Len(resolved[k].value) = 2
        /\ calls[Len(calls)].state = "returned"
        /\ Len(calls[Len(calls)].result) = 2

----------------------------------------------------------------------------
(* disassemble *)

MaxDisasmCalls == 3

MaxDisasmData == 5

\* The requests: the three instructions of the list, an address inside the
\* second one, and one beyond the last.
DisasmAddresses == {32768, 32769, 32771, 32774, 32776}

DisasmCounts == {0, 2, 4}

DisasmOffsets == {-2, 0, 1, 3}

DisasmLineBeyond == <<"8", "0", "0", "7", ":", " ", "n", "o", "p", CR, LF>>

\* The lines of the monitor; the echo of the last command goes with them.
DisasmChunks == {DisasmLine, DisasmLineBeyond, Prompt}

NextDisasm ==
    \/ CallsBelow(MaxDisasmCalls) /\
           \E address \in DisasmAddresses, instructionCount \in DisasmCounts,
              instructionOffset \in DisasmOffsets :
               Disassemble(address, instructionCount, instructionOffset)
    \/ DataBelow(MaxDisasmData) /\
           \E rawData \in DisasmChunks \cup {written[Len(written)].text} : OnData(rawData)

SpecDisasm == InitMapped /\ [][NextDisasm]_vars

\* The texts call k has written, in order.
TextsOf(k) ==
    LET ByCall(w) == w.call = k
        ws == SelectSeq(written, ByCall)
    IN  [j \in 1..Len(ws) |-> ws[j].text]

\* The 'u' command for a start address and a count.
DisassembleCommand(start, count) ==
    CmdU \o <<" ">> \o ToString16(start) \o <<" ">> \o ToString16(count) \o <<CR, LF>>

\* The address of the instruction with 0-based index i: an entry of the
\* list, or one past the last entry for each index past the last.
AddressOfIndex(list, i) ==
    IF i < Len(list) THEN list[i + 1] ELSE list[Len(list)] + (i - (Len(list) - 1))

\* The 0-based index of an address that is an entry of the list or lies
\* beyond the last one.
IndexOfAddress(list, a) ==
    IF a > list[Len(list)] THEN Len(list) - 1 + (a - list[Len(list)])
    ELSE (CHOOSE i \in 1..Len(list) : list[i] = a) - 1

\* C8: when the window starts before index 0 and ends after it, disassemble
\* writes one command, for count + startIndex instructions from the first
\* address of the instruction list, and returns -startIndex nop records and
\* then the records of the debugger.
\* Refuted: the command starts at address 0.
StraddlingWindowStartsAtFirstInstruction ==
    \A k \in 1..Len(calls) :
        calls[k].op = "disassemble" =>
            LET count == calls[k].args[2]
                startIndex == StartInstr(instructionList, calls[k].args[1], calls[k].args[3])
            IN  (startIndex < 0 /\ startIndex + count > 0) =>
                    /\ TextsOf(k)
                           = <<DisassembleCommand(instructionList[1], count + startIndex)>>
                    /\ calls[k].state = "returned" =>
                           /\ Len(calls[k].result) >= -startIndex
                           /\ \A j \in 1..Len(calls[k].result) :
                                  (calls[k].result[j].instruction = NopInstruction
                                   /\ calls[k].result[j].line = -1) <=> j <= -startIndex

\* C9: for a requested address that is the i-th entry of the instruction
\* list or lies beyond its last entry, and an offset k with i + k >= 0,
\* disassemble writes what it writes for the address of instruction i + k
\* with offset 0: the command for that address and the requested count when
\* the window ends after index 0, nothing otherwise; with offset 0 that
\* address is the requested one.
DisassembleShiftSymmetric ==
    \A k \in 1..Len(calls) :
        calls[k].op = "disassemble" =>
            LET a == calls[k].args[1]
                count == calls[k].args[2]
                offset == calls[k].args[3]
                list == instructionList
                known == (\E i \in 1..Len(list) : list[i] = a) \/ a > list[Len(list)]
            IN  (known /\ IndexOfAddress(list, a) + offset >= 0) =>
                    LET shifted == AddressOfIndex(list, IndexOfAddress(list, a) + offset)
                        other == DebuggerArgs(list, shifted, count, 0)
                    IN  /\ TextsOf(k)
                               = IF other = <<>> THEN <<>>
                                 ELSE <<CommandText(<<CmdU>> \o other)>>
                        /\ TextsOf(k)
                               = IF IndexOfAddress(list, a) + offset + count > 0
                                 THEN <<DisassembleCommand(shifted, count)>>
                                 ELSE <<>>
                        /\ offset = 0 => shifted = a

\* disassemble has been called for two instructions from one instruction
\* after the second, and has asked the debugger for two from the third; or
\* for one instruction from three after the third, and has asked for the one
\* three addresses beyond the last.
DisassembleShifted ==
    \E k \in 1..Len(calls) :
        /\ calls[k].op = "disassemble"
        /\ \/ /\ calls[k].args = <<32771, 2, 1>>
              /\ TextsOf(k) = <<DisassembleCommand(32774, 2)>>
           \/ /\ calls[k].args = <<32774, 1, 3>>
              /\ TextsOf(k) = <<DisassembleCommand(32777, 1)>>

----------------------------------------------------------------------------
(* continue, next, variables: the register snapshot *)

MaxRegsCalls == 4

MaxRegsData == 7

\* A first register line whose program counter is no address of the map.
RegisterLine1Off ==
    SubSeq(RegisterLine1, 1, Len(RegisterLine1) - 3) \o <<"1", CR, LF>>

RegsChunks == {RegisterLine1, RegisterLine1Off, RegisterLine2, Prompt}

NextRegs ==
    \/ CallsBelow(MaxRegsCalls) /\ Continue
    \/ CallsBelow(MaxRegsCalls) /\ StepNext
    \/ CallsBelow(MaxRegsCalls) /\ Variables
    \/ DataBelow(MaxRegsData) /\ \E rawData \in RegsChunks : OnData(rawData)

SpecRegs == InitMapped /\ [][NextRegs]_vars

\* C10: a call of continue, next or variables has returned only if its three
\* expectations are resolved, by three chunks that arrived in this order: a
\* first register line, a second register line, a line with the prompt
\* marker; what it returned holds the registers of the two lines, and as
\* line the highest index of the line map with the program counter of the
\* first line, -1 when the map has no such address.
SnapshotAfterRegistersAndPrompt ==
    \A c \in 1..Len(calls) :
        (calls[c].op \in {"continue", "next", "variables"}
         /\ calls[c].state = "returned") =>
            \E r1, r2, r3 \in 1..Len(resolved) :
                /\ resolved[r1].id = calls[c].exps[1]
                /\ resolved[r2].id = calls[c].exps[2]
                /\ resolved[r3].id = calls[c].exps[3]
                /\ resolved[r1].at < resolved[r2].at
                /\ resolved[r2].at < resolved[r3].at
                /\ MatchReg1(resolved[r1].value.input) # Null
                /\ MatchReg2(resolved[r2].value.input) # Null
                /\ MatchInteractive(resolved[r3].value.input) # Null
                /\ calls[c].result.groups
                       = MatchReg1(resolved[r1].value.input).groups
                         \o MatchReg2(resolved[r2].value.input).groups
                /\ calls[c].result.line
                       = HighestLine(lineMap, Group(MatchReg1(resolved[r1].value.input), "pc"))

\* A call has returned a snapshot whose program counter is the address of the
\* lines 1 and 2 of the map: its line is 2.
SnapshotReturned ==
    \E c \in 1..Len(calls) :
        /\ calls[c].op \in {"continue", "next", "variables"}
        /\ calls[c].state = "returned"
        /\ calls[c].result.line = 2
        /\ lineMap[2] = lineMap[3]

----------------------------------------------------------------------------
(* The answer to initialize, delivered in chunks of any length *)

\* What the monitor prints when initialize writes 'r': the echo of the
\* command, a register line, the prompt.
Stream ==
    <<"r", CR, LF>> \o <<"A", " ", "=", "1", "F", CR, LF>> \o Prompt

InitChunks == Fresh /\ wire = Stream

NextChunks ==
    \/ Initialize
    \/ \E n \in 1..Len(wire) : Deliver(n)

SpecChunks == InitChunks /\ [][NextChunks]_vars

\* The lines of a text: each ends with its line feed, the last one with the text.
RECURSIVE Lines(_)
Lines(s) ==
    IF s = <<>> THEN <<>>
    ELSE LET e == SetMin({i \in 1..Len(s) : s[i] = LF \/ i = Len(s)})
         IN  <<SubSeq(s, 1, e)>> \o Lines(SubSeq(s, e + 1, Len(s)))

\* The first of lines from index from on that matches pattern, 0 without one.
FirstMatch(lines, from, pattern) ==
    LET I == {i \in from..Len(lines) : Match(pattern, Sanitize(lines[i])) # Null}
    IN  IF I = {} THEN 0 ELSE SetMin(I)

\* For the patterns in order, the lines that match them in order.
RECURSIVE MatchingLines(_, _, _)
MatchingLines(lines, patterns, from) ==
    IF patterns = <<>> THEN <<>>
    ELSE LET i == FirstMatch(lines, from, Head(patterns))
         IN  <<i>> \o MatchingLines(lines, Tail(patterns), i + 1)

\* C1: once the whole stream is delivered to initialize, its expectations
\* are all resolved, in the order they were registered, each with the line of
\* the stream that matches it, however the stream was cut into chunks.
\* Refuted: the listener hands each chunk as a whole to runNextMatcher.
ChunkBoundariesDoNotMatter ==
    (wire = <<>> /\ Len(calls) = 1) =>
        LET lines == Lines(Stream)
            at == MatchingLines(lines, InitializePatterns, 1)
        IN  /\ Len(resolved) = Len(InitializePatterns)
            /\ \A k \in 1..Len(resolved) :
                   /\ resolved[k].id = k
                   /\ resolved[k].value
                          = Match(InitializePatterns[k], Sanitize(lines[at[k]]))
            /\ calls[1].state = "returned"

\* The stream delivered one line per chunk: initialize has returned.
LineByLineDelivered ==
    /\ wire = <<>>
    /\ dataCount = Len(Lines(Stream))
    /\ Len(calls) = 1
    /\ calls[1].state = "returned"
    /\ \A k \in 1..Len(resolved) :
           resolved[k].value.input \in {Lines(Stream)[i] : i \in 1..Len(Lines(Stream))}

----------------------------------------------------------------------------
(* terminate *)

\* The exit code the session reports for a terminate call that has settled.
ReportedCode(c) == IF c.state = "thrown" THEN c.result ELSE 0

\* The Terminated and Exited events due for the terminate calls from number k
\* on that have settled.
RECURSIVE TerminationEvents(_, _)
TerminationEvents(cs, k) ==
    IF k > Len(cs) THEN <<>>
    ELSE (IF cs[k].op = "terminate" /\ Settled(cs[k])
          THEN <<Event("terminated", <<>>), Event("exited", <<ReportedCode(cs[k])>>)>>
          ELSE <<>>)
         \o TerminationEvents(cs, k + 1)

\* The position of the first message of that kind and name in sent, 0 if none.
FirstSent(kind, name) ==
    IF \E i \in 1..Len(sent) : sent[i].kind = kind /\ sent[i].name = name
    THEN SetMin({i \in 1..Len(sent) : sent[i].kind = kind /\ sent[i].name = name})
    ELSE 0

\* C11: terminate writes 'exit' and nothing else, and stays pending until the
\* process exits.  In the step in which the process exits with a code, every
\* pending terminate call returns when the code is 0 and throws the code when
\* it is not, and the output listener is no longer installed.  The session
\* has then sent, after the terminate response, the Terminated event followed
\* by the Exited event with that code (0 for a call that returned), and it
\* sends neither event for a call that is still pending.
TerminateCompletesOnExit ==
    /\ [](/\ \A k \in 1..Len(calls) :
                calls[k].op = "terminate" =>
                    /\ TextsOf(k) = <<CommandText(<<CmdExit>>)>>
                    /\ calls[k].state \in {"exiting", "returned", "thrown"}
                    /\ calls[k].state = "exiting" => process \in {"running", "killed"}
                    /\ Settled(calls[k]) => process = "exited" /\ ~listening
                    /\ calls[k].state = "returned" => calls[k].result = Undefined
                    /\ calls[k].state = "thrown" => calls[k].result \in ExitCodes \ {0}
          /\ SelectSeq(sent, LAMBDA m : m.kind = "event" /\ m.name \in {"terminated", "exited"})
                 = TerminationEvents(calls, 1)
          /\ FirstSent("event", "terminated") > 0 =>
                 /\ FirstSent("response", "terminate") > 0
                 /\ FirstSent("response", "terminate") < FirstSent("event", "terminated"))
    /\ [][\A exitCode \in ExitCodes :
              OnExit(exitCode) =>
                  \A k \in 1..Len(calls) :
                      calls[k].state = "exiting" =>
                          /\ calls'[k].state = IF exitCode = 0 THEN "returned" ELSE "thrown"
                          /\ ReportedCode(calls'[k]) = exitCode
                          /\ ~listening']_vars

\* A terminate call has thrown the exit code 1, and the session has sent the
\* Terminated event and then the Exited event with the code 1.
TerminateFailedWithCode ==
    /\ process = "exited"
    /\ \E k \in 1..Len(calls) :
           /\ calls[k].op = "terminate"
           /\ calls[k].state = "thrown"
           /\ calls[k].result = 1
    /\ Len(sent) >= 2
    /\ sent[Len(sent) - 1].name = "terminated"
    /\ sent[Len(sent)].name = "exited"
    /\ sent[Len(sent)].body = <<1>>

----------------------------------------------------------------------------
(* disconnect *)

Disconnected == \E k \in 1..Len(calls) : calls[k].op = "disconnect"

\* C12: the step in which disconnect is called kills the process, disposes of
\* the output listener and writes nothing; a disconnect call has written no
\* command.  Once disconnect has been called the listener is never installed
\* again and no step processes output: no 'output' event is emitted, no
\* chunk is counted, nothing is resolved, and the queue of expectations and
\* the backlog stay as they were, so the expectations pending at disconnect
\* stay pending.
DisconnectAbandonsExpectations ==
    /\ [](\A k \in 1..Len(calls) :
              calls[k].op = "disconnect" =>
                  /\ TextsOf(k) = <<>>
                  /\ calls[k].state = "returned"
                  /\ process \in {"killed", "exited"}
                  /\ ~listening)
    /\ [][/\ (~Disconnected /\ Disconnected') =>
                 /\ process' = "killed"
                 /\ ~listening'
                 /\ written' = written
                 /\ matchers' = matchers
                 /\ outputBuffer' = outputBuffer
                 /\ resolved' = resolved
          /\ Disconnected =>
                 /\ matchers' = matchers
                 /\ outputBuffer' = outputBuffer
                 /\ resolved' = resolved
                 /\ output' = output
                 /\ dataCount' = dataCount
                 /\ written' = written]_vars

\* disconnect was called while initialize was waiting for the prompt: the
\* process has exited since, and the expectation is still in the queue.
DisconnectedWhileExpecting ==
    /\ Disconnected
    /\ process = "exited"
    /\ matchers # <<>>
    /\ resolved # <<>>
    /\ \E k \in 1..Len(calls) : calls[k].op = "initialize" /\ calls[k].state = "waiting"

----------------------------------------------------------------------------
(* The 'output' events *)

\* C13: as many 'output' events have been emitted as chunks were received.
\* In the step in which the listener is called with a chunk, exactly one
\* event is emitted, it carries the chunk as the process delivered it, and it
\* was emitted when the chunk had not yet been given to runNextMatcher; the
\* chunk then goes, sanitized, to the head of the queue or, with an empty
\* queue, to the backlog.  No other step emits an event.
EveryChunkEmittedOnce ==
    /\ [](output.count = dataCount)
    /\ [][/\ \A rawData \in Chunks :
                 OnData(rawData) =>
                     /\ output'.count = output.count + 1
                     /\ output'.last = rawData
                     /\ output'.offered = lastOffered
                     /\ output'.offered < dataCount'
                     /\ IF matchers # <<>>
                        THEN /\ offeredNow' = << <<matchers[1].id, dataCount'>> >>
                             /\ lastOffered' = dataCount'
                        ELSE /\ outputBuffer'
                                    = Append(outputBuffer, Entry(dataCount', Sanitize(rawData)))
                             /\ offeredNow' = <<>>
          /\ dataCount' = dataCount => output' = output
          /\ dataCount' # dataCount => dataCount' = dataCount + 1 /\ listening]_vars

\* The last chunk is a prompt drawn with control sequences: it was emitted as
\* it came, and it was given to an expectation that it did not resolve.
UnmatchedChunkEmitted ==
    /\ output.last = DrawnPrompt
    /\ Sanitize(output.last) # output.last
    /\ output.count = dataCount
    /\ lastOffered = dataCount
    /\ matchers # <<>>
    /\ \A k \in 1..Len(resolved) : resolved[k].at # dataCount

----------------------------------------------------------------------------
(* disassemble without a line map *)

\* Call number Len(calls) + 1 is made in this step, and it is a call of op.
CallsNow(op) == Len(calls') = Len(calls) + 1 /\ calls'[Len(calls')].op = op

\* C14: there is an instruction list exactly when there is a line map.  The
\* step in which disassemble is called without a line map ends the call with
\* a thrown error: nothing is written, no expectation is registered, nothing
\* is sent, and the queue, the backlog, the resolutions, the line map and the
\* instruction list are after the step what they were before it.
DisassembleWithoutMapFails ==
    /\ []((lineMap = UndefinedMap) <=> (instructionList = UndefinedList))
    /\ [][(CallsNow("disassemble") /\ lineMap = UndefinedMap) =>
              /\ calls'[Len(calls')].state = "thrown"
              /\ calls'[Len(calls')].exps = <<>>
              /\ written' = written
              /\ nextId' = nextId
              /\ matchers' = matchers
              /\ outputBuffer' = outputBuffer
              /\ resolved' = resolved
              /\ lineMap' = lineMap
              /\ instructionList' = instructionList
              /\ sent' = sent]_vars

\* disassemble was called and has thrown while initialize was waiting and
\* there was no line map; the expectation of initialize is still queued.
DisassembleThrewWithoutMap ==
    /\ lineMap = UndefinedMap
    /\ matchers # <<>>
    /\ Len(calls) = 2
    /\ calls[2].op = "disassemble"
    /\ calls[2].state = "thrown"
    /\ calls[2].result = <<"TypeError">>
    /\ TextsOf(2) = <<>>

----------------------------------------------------------------------------
(* The cached line map *)

MaxCacheCalls == 4

MaxCacheData == 6

\* The line lists of the calls below.
CacheLineLists == {<<>>, <<1>>}

\* The client waits for every call to end before it makes the next.
Serialized == \A k \in 1..Len(calls) : Settled(calls[k])

\* Sessions of setBreakpoints calls made one after the other, for either
\* file, with a listing that can be read.
NextCache ==
    \/ CallsBelow(MaxCacheCalls) /\ Serialized
          /\ \E f \in Files, lines \in CacheLineLists : SetBreakpoints(f, lines)
    \/ \E k \in 1..Len(calls) : ParseLstDone(k)
    \/ DataBelow(MaxCacheData) /\ OnData(Prompt)

SpecCache == InitReady /\ [][NextCache]_vars

\* The numbers of the setBreakpoints calls made so far.
BreakpointCalls == {k \in 1..Len(calls) : calls[k].op = "setBreakpoints"}

----------------------------------------------------------------------------
(* initialize *)

\* The numbers of the initialize calls made so far.
InitializeCalls == {k \in 1..Len(calls) : calls[k].op = "initialize"}

\* C16: the step in which initialize is called installs the output listener
\* and writes 'r', so that the listener is there when the command has been
\* written, and while the process runs it stays installed.  An initialize
\* call that has returned had its first expectation resolved by a chunk with
\* 'A =' and its second by a later chunk with the prompt.  The session sends
\* the initialize response in the step of the call, and the Initialized event
\* after it, in the step in which the call returns and in no other.
InitializeHandshake ==
    /\ [](/\ process = "running" => listening
          /\ \A k \in InitializeCalls :
                 /\ TextsOf(k) = <<CommandText(<<CmdR>>)>>
                 /\ FirstSent("response", "initialize") > 0
                 /\ calls[k].state \in {"waiting", "returned"}
                 /\ calls[k].state = "returned" =>
                        /\ Len(calls[k].exps) = 2
                        /\ \A j \in 1..2 : IsResolved(resolved, calls[k].exps[j])
                        /\ MatchAEq(Resolution(resolved, calls[k].exps[1]).value.input) # Null
                        /\ MatchInteractive(Resolution(resolved, calls[k].exps[2]).value.input)
                               # Null
                        /\ Resolution(resolved, calls[k].exps[1]).at
                               < Resolution(resolved, calls[k].exps[2]).at
                        /\ FirstSent("event", "initialized") > FirstSent("response", "initialize")
                 /\ calls[k].state = "waiting" => FirstSent("event", "initialized") = 0
          /\ InitializeCalls = {} =>
                 /\ written = <<>>
                 /\ sent = <<>>
                 /\ ~listening)
    /\ [][/\ CallsNow("initialize") =>
                 /\ ~listening /\ listening'
                 /\ WrittenNow = <<CommandText(<<CmdR>>)>>
                 /\ sent' = <<Response("initialize")>>
                            \o (IF calls'[Len(calls')].state = "returned"
                                THEN <<Event("initialized", <<>>)>> ELSE <<>>)
          /\ \A k \in InitializeCalls :
                 (calls[k].state = "waiting" /\ calls'[k].state = "returned")
                     <=> (Len(sent') = Len(sent) + 1 /\ sent'[Len(sent')].name = "initialized")
         ]_vars

\* initialize has returned: a chunk with the register lines and a prompt
\* resolved its first expectation, and only the prompt of a later chunk its
\* second; the session has sent the response and then the Initialized event.
InitializedAfterLaterPrompt ==
    /\ Len(calls) = 1
    /\ calls[1].op = "initialize"
    /\ calls[1].state = "returned"
    /\ MatchInteractive(Resolution(resolved, 1).value.input) # Null
    /\ Resolution(resolved, 2).at > Resolution(resolved, 1).at
    /\ Len(sent) = 2
    /\ sent[1].kind = "response" /\ sent[1].name = "initialize"
    /\ sent[2].kind = "event" /\ sent[2].name = "initialized"

----------------------------------------------------------------------------
(* A single expectation at the head of the queue *)

\* C17: in the step in which the listener is called with a chunk while a
\* single expectation is at the head of the queue, the sanitized chunk is
\* tested against that expectation and no other, and it does not go to the
\* backlog.  If it matches the pattern, the expectation is resolved with the
\* match and leaves the queue, and the rest of the queue stays; if it does
\* not, the queue and the resolutions are what they were.
SingleConsumesOrDiscards ==
    [][\A rawData \in Chunks :
           (OnData(rawData) /\ matchers # <<>> /\ ~matchers[1].untilInteractive) =>
               /\ offeredNow' = << <<matchers[1].id, dataCount'>> >>
               /\ outputBuffer' = outputBuffer
               /\ outputBuffer = <<>>
               /\ IF Match(matchers[1].pattern, Sanitize(rawData)) # Null
                  THEN /\ matchers' = Tail(matchers)
                       /\ Len(resolved') = Len(resolved) + 1
                       /\ SubSeq(resolved', 1, Len(resolved)) = resolved
                       /\ resolved'[Len(resolved')].id = matchers[1].id
                       /\ resolved'[Len(resolved')].at = dataCount'
                       /\ resolved'[Len(resolved')].value
                              = Match(matchers[1].pattern, Sanitize(rawData))
                  ELSE /\ matchers' = matchers
                       /\ resolved' = resolved]_vars

\* Two chunks have come for the expectations of initialize: the first did not
\* match /A =/ and is gone, the second resolved it; the second also holds a
\* prompt, and the prompt expectation is still at the head of the queue.
SingleDiscardedThenConsumed ==
    /\ dataCount = 2
    /\ lastOffered = 2
    /\ outputBuffer = <<>>
    /\ Len(resolved) = 1
    /\ resolved[1].at = 2
    /\ matchers # <<>>
    /\ matchers[1].pattern = "interactive"
    /\ MatchInteractive(resolved[1].value.input) # Null

----------------------------------------------------------------------------
(* disassemble: when the debugger is called *)

\* The indexes of the window of disassemble call number k.
WindowOf(k) ==
    LET startIndex == StartInstr(instructionList, calls[k].args[1], calls[k].args[3])
    IN  startIndex..(startIndex + calls[k].args[2] - 1)

\* C18: a disassemble call writes exactly one command and registers one
\* expectation when some index of its window is 0 or more, and writes
\* nothing and registers nothing when none is: when the window ends at
\* index 0, and when it is empty.
\* Refuted: an empty window that starts after index 0 writes a command.
DisassembleCallsDebuggerIffWindowReal ==
    \A k \in 1..Len(calls) :
        calls[k].op = "disassemble" =>
            IF \E i \in WindowOf(k) : i >= 0
            THEN Len(TextsOf(k)) = 1 /\ Len(calls[k].exps) = 1
            ELSE TextsOf(k) = <<>> /\ calls[k].exps = <<>>

----------------------------------------------------------------------------
(* disassemble: the padding before the program *)

MaxWindowCalls == 3

MaxWindowData == 7

\* Requests <<address, count, offset>> with windows below, across and above
\* index 0, one of them from a negative address and one across sixteen.
WindowRequests ==
    {<<32768, 4, -2>>, <<32768, 2, -3>>, <<32771, 3, -2>>, <<32768, 1, 0>>,
     <<-18, 3, 0>>, <<32768, 18, -17>>}

WindowChunks == {DisasmLine, DisasmLineBeyond, Prompt}

NextWindow ==
    \/ CallsBelow(MaxWindowCalls) /\
           \E request \in WindowRequests : Disassemble(request[1], request[2], request[3])
    \/ DataBelow(MaxWindowData) /\ \E rawData \in WindowChunks : OnData(rawData)

SpecWindow == InitMapped /\ [][NextWindow]_vars

\* The negative indexes of the window of call k, and the first index of it.
NegativeOf(k) == {i \in WindowOf(k) : i < 0}

FirstOf(k) == StartInstr(instructionList, calls[k].args[1], calls[k].args[3])

\* C19: the records a disassemble call makes before it calls the debugger
\* are one for each negative index of its window, in increasing order of the
\* indexes: each has line -1 and the nop instruction, the one for index -1
\* has the label '-1 ' and the one for any other index its hexadecimal
\* numeral, so that all labels differ.  What the call returns is these
\* records followed by one record for each line of the debugger, with the
\* address and the text of that line.
PaddingForNegativeIndexes ==
    \A k \in 1..Len(calls) :
        calls[k].op = "disassemble" =>
            LET padding == calls[k].locals.results
                n == Cardinality(NegativeOf(k))
            IN  /\ Len(padding) = n
                /\ \A j \in 1..n :
                       /\ padding[j].line = -1
                       /\ padding[j].instruction = NopInstruction
                       /\ padding[j].address
                              = IF FirstOf(k) + j - 1 = -1 THEN <<"-", "1", " ">>
                                ELSE ToString16(FirstOf(k) + j - 1)
                /\ \A i, j \in 1..n : i # j => padding[i].address # padding[j].address
                /\ calls[k].state = "returned" =>
                       /\ Len(calls[k].result) >= n
                       /\ SubSeq(calls[k].result, 1, n) = padding
                       /\ IF calls[k].exps = <<>> THEN Len(calls[k].result) = n
                          ELSE LET lines == Resolution(resolved, calls[k].exps[1]).value
                               IN  /\ Len(calls[k].result) = n + Len(lines)
                                   /\ \A j \in 1..Len(lines) :
                                          /\ calls[k].result[n + j].address
                                                 = Group(lines[j], "address")
                                          /\ calls[k].result[n + j].instruction
                                                 = Group(lines[j], "instruction")

\* The call for four instructions from two before the first has returned the
\* records for the indexes -2 and -1 and then the record of a line of the
\* debugger.
PaddingThenDebuggerRecord ==
    \E k \in 1..Len(calls) :
        /\ calls[k].op = "disassemble"
        /\ calls[k].args = <<32768, 4, -2>>
        /\ calls[k].state = "returned"
        /\ Len(calls[k].result) = 3
        /\ calls[k].result[1].address = <<"-", "2">>
        /\ calls[k].result[2].address = <<"-", "1", " ">>
        /\ calls[k].result[3].address = <<"8", "0", "0", "3">>
        /\ calls[k].result[3].line = 2

----------------------------------------------------------------------------
(* readVariable *)

MaxReadCalls == 3

MaxReadData == 5

\* The echo of the register name, the value with and without its line end,
\* and an error message, plain and as the terminal draws it.
EchoRegister == <<"A", CR, LF>>

ValueLine == HexValue \o <<CR, LF>>

ErrorLine == <<"E", "r", "r", "o", "r", CR, LF>>

DrawnErrorLine == <<ESC, "[", "0", "m">> \o ErrorLine

ReadChunks == {EchoRegister, HexValue, ValueLine, ErrorLine, DrawnErrorLine, Prompt}

NextRead ==
    \/ CallsBelow(MaxReadCalls) /\ \E register \in RegisterNames : ReadVariable(register)
    \/ DataBelow(MaxReadData) /\ \E rawData \in ReadChunks : OnData(rawData)

SpecRead == InitReady /\ [][NextRead]_vars

\* The text consists of hexadecimal digits and nothing else.
IsHexValue(text) == text # <<>> /\ \A i \in 1..Len(text) : text[i] \in HexUpper

----------------------------------------------------------------------------
(* A debugger that answers every command, and a client that waits *)

MaxDeviceCalls == 3

\* The lines the debugger prints between the echo of a command and the
\* prompt: the registers for r, g and s, a breakpoint for brl, an
\* instruction for u, the value for a register name, nothing otherwise.
AnswerBody(text) ==
    IF text \in {CommandText(<<CmdR>>), CommandText(<<CmdG>>), CommandText(<<CmdS>>)}
    THEN <<RegisterLine1, RegisterLine2>>
    ELSE IF text = CommandText(<<CmdBrl>>) THEN <<BreakpointLine1>>
    ELSE IF HasAt(text, 1, CmdU \o <<" ">>) THEN <<DisasmLine>>
    ELSE IF \E register \in RegisterNames : text = CommandText(<<register>>)
    THEN <<HexValue>>
    ELSE <<>>

\* The answer to the command w: its echo, its body lines and one prompt, a
\* chunk each, with the call that wrote the command.
Answer(w) ==
    LET chunks == <<w.text>> \o AnswerBody(w.text) \o <<Prompt>>
    IN  [j \in 1..Len(chunks) |->
            [call |-> w.call, chunk |-> chunks[j], prompt |-> j = Len(chunks)]]

\* What the debugger prints for the commands ws[i], ws[i + 1], ..: the
\* answers in the order of the commands.
RECURSIVE DeviceOutput(_, _)
DeviceOutput(ws, i) ==
    IF i > Len(ws) THEN <<>> ELSE Answer(ws[i]) \o DeviceOutput(ws, i + 1)

\* The terminal delivers the next chunk of the debugger's answers.
DeviceAnswers ==
    \E out \in {DeviceOutput(written, 1)} :
        /\ dataCount < Len(out)
        /\ OnData(out[dataCount + 1].chunk)

\* Sessions from the start in which each operation is called when the ones
\* before it have ended, and the debugger answers every command.
NextDevice ==
    \/ Initialize
    \/ CallsBelow(MaxDeviceCalls) /\ Serialized
          /\ \E f \in Files, lines \in CacheLineLists : SetBreakpoints(f, lines)
    \/ \E k \in 1..Len(calls) : ParseLstDone(k)
    \/ CallsBelow(MaxDeviceCalls) /\ Serialized /\ Continue
    \/ CallsBelow(MaxDeviceCalls) /\ Serialized /\ Variables
    \/ CallsBelow(MaxDeviceCalls) /\ Serialized /\ StepNext
    \/ CallsBelow(MaxDeviceCalls) /\ Serialized /\ \E input \in EvaluateInputs : Evaluate(input)
    \/ CallsBelow(MaxDeviceCalls) /\ Serialized
          /\ \E register \in RegisterNames, value \in RegisterValues :
                 SetVariable(register, value)
    \/ CallsBelow(MaxDeviceCalls) /\ Serialized
          /\ \E register \in RegisterNames : ReadVariable(register)
    \/ CallsBelow(MaxDeviceCalls) /\ Serialized /\ GetBreakpoints
    \/ CallsBelow(MaxDeviceCalls) /\ Serialized
          /\ \E request \in DisassembleRequests :
                 Disassemble(request[1], request[2], request[3])
    \/ DeviceAnswers

SpecDevice == Init /\ [][NextDevice]_vars

\* The call that awaits expectation id.
CallOf(id) ==
    CHOOSE k \in 1..Len(calls) : \E j \in 1..Len(calls[k].exps) : calls[k].exps[j] = id

\* The expectation ends at a prompt: a single one for the prompt, or a multi one.
EndsAtPrompt(r) == r.untilInteractive \/ r.pattern = "interactive"

\* C21: with calls made one after the other and a debugger that answers
\* every command with its echo, its body and one prompt, a call that has
\* ended has consumed every prompt printed for its commands, and every
\* expectation that ends at a prompt is resolved by a chunk printed in answer
\* to a command of the call that awaits it.
EveryPromptConsumedByItsCall ==
    \E out \in {DeviceOutput(written, 1)} :
        /\ \A k \in 1..Len(calls) :
               Settled(calls[k]) =>
                   \A n \in 1..Len(out) :
                       out[n].call = k /\ out[n].prompt =>
                           \E i \in 1..Len(resolved) :
                               /\ resolved[i].at = n
                               /\ CallOf(resolved[i].id) = k
        /\ \A i \in 1..Len(resolved) :
               EndsAtPrompt(resolved[i]) =>
                   out[resolved[i].at].call = CallOf(resolved[i].id)

----------------------------------------------------------------------------
(* Calls that overlap *)

MaxOverlapCalls == 3

MaxOverlapData == 4

\* Sessions after initialize in which a call is made whether or not the
\* calls before it have ended.
NextOverlap ==
    \/ CallsBelow(MaxOverlapCalls)
          /\ \E f \in Files, lines \in CacheLineLists : SetBreakpoints(f, lines)
    \/ \E k \in 1..Len(calls) : ParseLstDone(k)
    \/ CallsBelow(MaxOverlapCalls) /\ Continue
    \/ CallsBelow(MaxOverlapCalls) /\ \E input \in EvaluateInputs : Evaluate(input)
    \/ DataBelow(MaxOverlapData) /\ OnData(Prompt)

SpecOverlap == InitReady /\ [][NextOverlap]_vars

\* The places in written of the commands of call k.
PlacesOf(k) == {w \in 1..Len(written) : written[w].call = k}

\* The calls that have written a command and registered an expectation.
Talking == {k \in 1..Len(calls) : PlacesOf(k) # {} /\ calls[k].exps # <<>>}

\* C22: whether or not calls wait for one another, the commands of a call lie
\* side by side in what is written and its expectations side by side in the
\* queue's numbering, and the calls come in the same order in both; a call
\* that waits for the listing has written and registered nothing.  Every
\* step writes for one call at most, and registers for that call only.
CommandsAndExpectationsInOneOrder ==
    /\ [](/\ \A k \in 1..Len(calls) :
                /\ \A a \in PlacesOf(k), b \in PlacesOf(k) :
                       \A w \in a..b : written[w].call = k
                /\ \A j \in 1..(Len(calls[k].exps) - 1) :
                       calls[k].exps[j + 1] = calls[k].exps[j] + 1
                /\ calls[k].state = "reading" =>
                       PlacesOf(k) = {} /\ calls[k].exps = <<>>
          /\ \A j \in Talking, k \in Talking :
                SetMin(PlacesOf(j)) < SetMin(PlacesOf(k))
                    <=> calls[j].exps[1] < calls[k].exps[1])
    /\ [][written' # written \/ nextId' # nextId =>
              \E k \in 1..Len(calls') :
                  /\ \A w \in (Len(written) + 1)..Len(written') : written'[w].call = k
                  /\ calls'[k].exps = [j \in 1..(nextId' - nextId) |-> nextId + j - 1]
                  /\ k <= Len(calls) => calls[k].state = "reading"]_vars

\* A setBreakpoints call waited for the listing while a continue call, made
\* after it, wrote its command and registered its expectations: the later
\* call is the earlier one in what is written and in the queue.
LaterCallWroteFirst ==
    \E j \in 1..Len(calls), k \in 1..Len(calls) :
        /\ j < k
        /\ calls[j].op = "setBreakpoints" /\ calls[j].state = "waiting"
        /\ calls[k].op = "continue" /\ calls[k].state = "waiting"
        /\ Len(TextsOf(j)) = 2
        /\ SetMax(PlacesOf(k)) < SetMin(PlacesOf(j))
        /\ calls[k].exps[3] < calls[j].exps[1]

----------------------------------------------------------------------------
(* disassemble: addresses inside the program *)

\* C23: a disassemble call for an address from 0 to the last address of the
\* instruction list, listed or not, with an offset of 0 or more, has a base
\* index of 0 or more and makes no padding record.
AddressInsideProgramHasNoPadding ==
    \A k \in 1..Len(calls) :
        (/\ calls[k].op = "disassemble"
         /\ calls[k].state # "thrown"
         /\ calls[k].args[1] \in 0..instructionList[Len(instructionList)]
         /\ calls[k].args[3] >= 0)
        => /\ BaseInstr(instructionList, calls[k].args[1]) >= 0
           /\ calls[k].locals.results = <<>>

----------------------------------------------------------------------------
(* The Stopped events and the stack trace *)

MaxStopCalls == 4

MaxStopData == 10

MaxStopSent == 9

\* The chunks that may wait in the backlog: a whole answer.
MaxStopBuffer == 3

\* stackTraceRequest: it reads this._registers and sends its response.
\* Before the first assignment this._registers.line throws and nothing is sent.
StackTrace ==
    /\ session.stored > 0
    /\ sent' = Append(sent, StackTraceResponse(session.registers))
    /\ NoMatching
    /\ UNCHANGED <<process, listening, lineMap, instructionList, file, written, calls,
                   dataCount, output, wire, session>>

\* Sessions with a line map: continue and step requests, made whether or
\* not the ones before have ended, stack-trace requests at any time, and the
\* lines of the debugger.
NextStops ==
    \/ CallsBelow(MaxStopCalls) /\ Continue
    \/ CallsBelow(MaxStopCalls) /\ StepNext
    \/ Len(sent) < MaxStopSent /\ StackTrace
    \/ /\ dataCount < MaxStopData
       /\ matchers = <<>> => Len(outputBuffer) < MaxStopBuffer
       /\ \E rawData \in RegsChunks : OnData(rawData)

SpecStops == InitMapped /\ [][NextStops]_vars

\* The continue and next calls that have returned.
CompletedStops ==
    {k \in 1..Len(calls) : calls[k].op \in {"continue", "next"} /\ calls[k].state = "returned"}

\* The places in sent of the messages of that kind and name.
PlacesSent(kind, name) == {i \in 1..Len(sent) : sent[i].kind = kind /\ sent[i].name = name}

\* Call k is made in this step.
MadeNow(k) == k = Len(calls) + 1 /\ Len(calls') = k

\* Call k of continue or next returns in this step: a call that waited, or a
\* call made in this step whose answer was in the backlog.
StopsNow(k) ==
    /\ calls'[k].op \in {"continue", "next"}
    /\ calls'[k].state = "returned"
    /\ MadeNow(k) \/ calls[k].state = "waiting"

\* C24: a continue or step request is answered when it is made, before its
\* call has ended; when the call returns, the session stores what it
\* returned and then sends the one Stopped event of the call, so that every
\* Stopped event is sent with the snapshot of its stop stored; and a stack
\* trace sent after a Stopped event has the line and the program counter of
\* the continue or next call that returned last.
StoppedAfterSnapshotStored ==
    /\ [](/\ session.stopped = Cardinality(CompletedStops)
          /\ session.stopped = Cardinality(PlacesSent("event", "stopped"))
          /\ session.seen = session.stored
          /\ session.stored = session.stopped
          /\ CompletedStops # {} =>
                 session.registers = calls[SetMax(CompletedStops)].result
          /\ \A k \in 1..Len(calls) :
                 calls[k].op \in {"continue", "next"} =>
                     Cardinality(PlacesSent("response", calls[k].op))
                         >= Cardinality({j \in 1..k : calls[j].op = calls[k].op}))
    /\ [][/\ \A k \in 1..Len(calls') :
                 /\ MadeNow(k) /\ calls'[k].op \in {"continue", "next"} =>
                        /\ Len(sent') > Len(sent)
                        /\ sent'[Len(sent) + 1] = Response(calls'[k].op)
                 /\ StopsNow(k) =>
                        /\ session'.registers = calls'[k].result
                        /\ session'.seen = session.stored + 1
                        /\ sent' = sent
                               \o (IF MadeNow(k) THEN <<Response(calls'[k].op)>> ELSE <<>>)
                               \o <<Event("stopped",
                                          <<IF calls'[k].op = "continue" THEN "breakpoint"
                                            ELSE "step">>)>>
          /\ (\A k \in 1..Len(calls') : ~StopsNow(k)) =>
                 /\ session' = session
                 /\ PlacesSent("event", "stopped")' = PlacesSent("event", "stopped")
          /\ Len(sent') > Len(sent) /\ sent'[Len(sent')].name = "stackTrace" =>
                 /\ CompletedStops # {}
                 /\ sent'[Len(sent')].body
                        = <<calls[SetMax(CompletedStops)].result.line + 1,
                            Group(calls[SetMax(CompletedStops)].result, "pc")>>]_vars

\* Two stops are complete, the second at another line than the first, and
\* the stack trace sent after the second Stopped event has its line.
StackTraceOfSecondStop ==
    /\ session.stopped = 2
    /\ Cardinality(CompletedStops) = 2
    /\ \E j \in CompletedStops, k \in CompletedStops :
           j < k /\ calls[j].result.line # calls[k].result.line
    /\ sent[Len(sent)].name = "stackTrace"
    /\ sent[Len(sent)].body[1] = calls[SetMax(CompletedStops)].result.line + 1
    /\ sent[Len(sent) - 1].name = "stopped"

=============================================================================
